---- MODULE Spec2Model ----
(***************************************************************************)
(* Model of the pgx connection pool benchmark: the concurrency harness     *)
(* (runBenchmark), the idle reacquisition test (runIdleTest) and main in   *)
(* main.go, the in-memory TraceCollector, the JSON trace exporter          *)
(* (ExportTraceToJSON) and the slowest-trace analyzer and export           *)
(* (FindSlowestTraces, ExportSlowestTraces in trace_exporter.go).          *)
(*                                                                         *)
(* The specifications share the module's variables:                        *)
(*   Spec / FairSpec   one call of runBenchmark (pools, tasks, join,       *)
(*                     aggregation); FairSpec adds the scheduling fairness *)
(*   CollectorSpec     concurrent ExportSpans / GetSpans / Shutdown calls  *)
(*                     on one TraceCollector, at the granularity of the    *)
(*                     mutex operations                                    *)
(*   AnalyzerSpec      FindSlowestTraces applied to a collector snapshot   *)
(*   RepeatSpec        FindSlowestTraces called twice on one snapshot      *)
(*   ExporterSpec      ExportTraceToJSON applied to a slice of spans       *)
(*   SlowestExportSpec calls of ExportSlowestTraces on a growing collector *)
(*                     while the wall clock advances                       *)
(*   IdleTestSpec      one call of runIdleTest                             *)
(*   MainSpec          main: warmup run, measured run and idle test of     *)
(*                     every configuration                                 *)
(* Each specification keeps the variables of the parts it does not run at  *)
(* their initial values.                                                   *)
(***************************************************************************)
EXTENDS Integers, Sequences, FiniteSets, TLC

(***************************************************************************)
(* Bounds of the model.                                                    *)
(***************************************************************************)
\* largest concurrency (number of client tasks) a run is started with
MaxConcurrency == 3
\* largest value time.Since can return, in clock ticks
MaxDur == 2
\* main.go:33 sets NumberOfPoolInstances = 6 and main.go:27 sets
\* DefaultMaxConnections = 10; the model scales both down so that tasks
\* outnumber the pooled connections and have to wait for a free one.
NumberOfPoolInstances == 2
DefaultMaxConnections == 1
\* goroutines calling ExportSpans concurrently, ExportSpans calls in all,
\* spans in one exported batch, Shutdown calls
NumProducers == 2
MaxCalls == 2
MaxBatch == 2
MaxShutdowns == 2
\* spans in the snapshot FindSlowestTraces reads, longest span in ticks,
\* largest number of traces asked for
MaxSpans == 3
MaxSpanDur == 2
MaxK == 3
\* ExportTraceToJSON: spans of one export, attributes over all its spans
MaxExportSpans == 2
MaxExportAttrs == 1
\* runIdleTest: the longest blocking call and the idle period (10 s), in ticks
MaxExportCalls == 2
MaxTicks == 2
TicksPerSecond == 2
MaxIdleLatency == 2
IdlePeriod == 2
\* main: the concurrency level of its runs (5000 in concurrencyLevels)
ConcurrencyLevel == 2
\* main: len(configs)
NumConfigs == 2

VARIABLES
    \* ---- runBenchmark ----
    concurrency,        \* parameter of runBenchmark
    maxLatency,         \* the longest query latency of the backend, in ticks
    pc,                 \* position of the runBenchmark goroutine
    pools,              \* pools[p]: "none" | "open" | "closed"
    inUse,              \* inUse[p]: connections of pool p held by tasks
    launched,           \* loop variable i of the launch loop
    wg,                 \* sync.WaitGroup counter
    tpc,                \* tpc[w]: position of client task w
    poolIndex,          \* poolIndex[w]: the pool task w sent its query to,
                        \* -1 before it did
    acquisitionTimes,   \* the raw timing array
    writes,             \* writes[k]: the tasks that wrote entry k, in order
    queryErr,           \* queryErr[w]: pool.Query of task w returned an error
    sample,             \* sample[w]: what time.Since(queryStart) returned
    scanOutcome,        \* scanOutcome[w]: result of rows.Next / rows.Scan
                        \* of task w, while it holds its rows
    results,            \* the BenchmarkResults produced by this call
    \* ---- TraceCollector ----
    tcSpans,            \* tc.spans
    mu,                 \* tc.mu: <<"free">>, <<"export", p>> or <<"get">>
    epc,                \* epc[p]: position of producer p in ExportSpans
    ecall,              \* ecall[p]: number of the call producer p is in
    eidx,               \* eidx[p]: spans of its batch p has appended
    gpc,                \* position of the reader in GetSpans
    snapshot,           \* what the reader's last GetSpans returned
    nextCall,           \* ExportSpans calls made so far
    callSize,           \* callSize[c]: length of the batch of call c
    lateCalls,          \* the calls made after a Shutdown call
    shutdownCalls,      \* Shutdown calls made so far
    shutdownErr,        \* what the last Shutdown call returned
    \* ---- FindSlowestTraces ----
    fpc,                \* "idle" | "returned" | "panicked"
    findN,              \* the n of the last FindSlowestTraces call
    found,              \* what that call returned
    repc,               \* "idle" | "returned" | "panicked": a second call
                        \* with the same n on the unchanged collector
    refound,            \* what the second call returned
    \* ---- ExportTraceToJSON ----
    xspans,             \* the spans handed to ExportTraceToJSON
    xpc,                \* "build" | "returned"
    xerr,               \* the error ExportTraceToJSON returned, or "nil"
    xfile,              \* the filename of the call
    files,              \* files[f]: <<"absent">>, <<"empty">> or
                        \* <<"json", document>>
    \* ---- ExportSlowestTraces ----
    clock,              \* the wall clock, in ticks
    exportCalls,        \* calls of ExportSlowestTraces so far
    exportArgs,         \* <<connType, numToExport>> of the latest call
    exportErr,          \* what the latest call returned: <<"nil">>, an
                        \* error and what it wraps, or <<"panic">>
    \* ---- runIdleTest ----
    ipc,                \* position of runIdleTest
    ipool,              \* its pool: "none" | "open" | "closed"
    iheld,              \* connections of that pool the test holds
    now,                \* the clock
    releasedAt,         \* the clock at the first conn.Release()
    reacquireStart,     \* local variable reacquireStart
    reacquireDuration,  \* local variable reacquireDuration
    idleResult,         \* << >>, or <<d>> once runIdleTest returned d
    istates,            \* the states the test has entered, in order
    \* ---- main ----
    mpc,                \* position of main
    configIndex,        \* index of the configuration main is at
    allResults          \* main's allResults

benchVars == <<concurrency, maxLatency, pc, pools, inUse, launched, wg, tpc,
               poolIndex,
               acquisitionTimes, writes, queryErr, sample, scanOutcome,
               results>>

collVars == <<tcSpans, mu, epc, ecall, eidx, gpc, snapshot, nextCall,
              callSize, lateCalls, shutdownCalls, shutdownErr>>

anaVars == <<fpc, findN, found, repc, refound>>

expVars == <<xspans, xpc, xerr, xfile, files,
             clock, exportCalls, exportArgs, exportErr>>

idleVars == <<ipc, ipool, iheld, now, releasedAt, reacquireStart,
              reacquireDuration, idleResult, istates>>

mainVars == <<mpc, configIndex, allResults>>

vars == <<benchVars, collVars, anaVars, expVars, idleVars, mainVars>>

Workers == 0 .. (concurrency - 1)
PoolIds == 0 .. (NumberOfPoolInstances - 1)
\* the values time.Since(queryStart) can return in this run
Durations == 0 .. maxLatency
Producers == 1 .. NumProducers
\* the files ExportTraceToJSON is asked to write
FileNames == {"trace_1.json", "trace_2.json"}

(***************************************************************************)
(* runBenchmark: the aggregation loop (main.go:209-227).                   *)
(***************************************************************************)
\* mutant of AggStep: the minimum is not reseeded when it still holds the
\* sentinel taken from a failed entry 0
AggStepKeepsZeroMin(acc, t) ==
    IF t = 0
    THEN acc
    ELSE [total |-> acc.total + t,
          min   |-> IF t < acc.min THEN t ELSE acc.min,
          max   |-> IF t > acc.max THEN t ELSE acc.max]

\* one iteration of `for _, t := range acquisitionTimes`
AggStep(acc, t) ==
    IF t = 0
    THEN acc
    ELSE [total |-> acc.total + t,
          min   |-> IF t < acc.min \/ acc.min = 0 THEN t ELSE acc.min,
          max   |-> IF t > acc.max THEN t ELSE acc.max]

RECURSIVE AggLoop(_, _, _, _)
AggLoop(times, k, n, acc) ==
    IF k >= n THEN acc ELSE AggLoop(times, k + 1, n, AggStep(acc, times[k]))

\* totalQueryTime, minQueryTime, maxQueryTime after the loop
Aggregate(times, n) ==
    AggLoop(times, 0, n, [total |-> 0, min |-> times[0], max |-> times[0]])

\* avgQueryTime := totalQueryTime / time.Duration(concurrency)
AvgQueryTime(total, n) == total \div n

\* mutant of BenchmarkResult: the average is taken over the successful
\* entries instead of the full concurrency
BenchmarkResultAvgOverSuccessful(times, n) ==
    LET a == Aggregate(times, n)
        s == Cardinality({k \in 0 .. (n - 1) : times[k] # 0})
    IN
    [Concurrency        |-> n,
     AvgAcquisitionTime |-> IF s = 0 THEN 0 ELSE a.total \div s,
     MinAcquisitionTime |-> a.min,
     MaxAcquisitionTime |-> a.max,
     TotalQueries       |-> n,
     AcquisitionTimes   |-> times]

BenchmarkResult(times, n) ==
    LET a == Aggregate(times, n) IN
    [Concurrency        |-> n,
     AvgAcquisitionTime |-> AvgQueryTime(a.total, n),
     MinAcquisitionTime |-> a.min,
     MaxAcquisitionTime |-> a.max,
     TotalQueries       |-> n,
     AcquisitionTimes   |-> times]

(***************************************************************************)
(* runBenchmark: the client task (main.go:159-203).                        *)
(***************************************************************************)
\* mutant of PoolIndex: every task goes to the first pool
PoolIndexFirst(w) == 0

\* poolIndex := workerID % NumberOfPoolInstances
PoolIndex(w) == w % NumberOfPoolInstances

\* mutant of TimingIndex: the task indexes the array by its pool index
TimingIndexByPool(w) == w % NumberOfPoolInstances

\* the entry of acquisitionTimes task w assigns: acquisitionTimes[workerID]
TimingIndex(w) == w

\* acquisitionTimes[TimingIndex(w)] = v, with the writer recorded
WriteTime(w, v) ==
    /\ acquisitionTimes' = [acquisitionTimes EXCEPT ![TimingIndex(w)] = v]
    /\ writes' = [writes EXCEPT ![TimingIndex(w)] = Append(@, w)]

\* mutant of WaitReturns: the join does not wait
WaitReturnsAtOnce == TRUE

\* what wg.Wait() waits for
WaitReturns == wg = 0

\* mutant of QueryErr: the error path returns without wg.Done
QueryErrWithoutDone(w) ==
    /\ tpc[w] = "query"
    /\ poolIndex' = [poolIndex EXCEPT ![w] = PoolIndex(w)]
    /\ WriteTime(w, 0)
    /\ queryErr' = [queryErr EXCEPT ![w] = TRUE]
    /\ tpc' = [tpc EXCEPT ![w] = "done"]
    /\ UNCHANGED <<concurrency, maxLatency, pc, pools, inUse, launched, wg,
                   sample, scanOutcome, results>>
    /\ UNCHANGED <<collVars, anaVars, expVars,
                   idleVars, mainVars>>

\* mutant of QueryErr: the error is fatal (log.Fatalf ends the process)
QueryErrFatal(w) ==
    /\ tpc[w] = "query"
    /\ poolIndex' = [poolIndex EXCEPT ![w] = PoolIndex(w)]
    /\ queryErr' = [queryErr EXCEPT ![w] = TRUE]
    /\ pc' = "fatal"
    /\ UNCHANGED <<concurrency, maxLatency, pools, inUse, launched, wg, tpc,
                   acquisitionTimes, writes, sample, scanOutcome, results>>
    /\ UNCHANGED <<collVars, anaVars, expVars,
                   idleVars, mainVars>>

\* pool.Query returned an error: the sentinel is recorded, the task returns
\* (the deferred wg.Done runs)
QueryErr(w) ==
    /\ tpc[w] = "query"
    /\ poolIndex' = [poolIndex EXCEPT ![w] = PoolIndex(w)]
    /\ WriteTime(w, 0)
    /\ queryErr' = [queryErr EXCEPT ![w] = TRUE]
    /\ tpc' = [tpc EXCEPT ![w] = "done"]
    /\ wg' = wg - 1
    /\ UNCHANGED <<concurrency, maxLatency, pc, pools, inUse, launched,
                   sample, scanOutcome, results>>
    /\ UNCHANGED <<collVars, anaVars, expVars,
                   idleVars, mainVars>>

\* pool.Query acquired a connection of the task's pool and returned rows;
\* queryDuration is taken and recorded
QueryOk(w) ==
    /\ tpc[w] = "query"
    /\ poolIndex' = [poolIndex EXCEPT ![w] = PoolIndex(w)]
    /\ inUse[PoolIndex(w)] < DefaultMaxConnections
    /\ inUse' = [inUse EXCEPT ![PoolIndex(w)] = @ + 1]
    /\ \E d \in Durations :
          /\ sample' = [sample EXCEPT ![w] = d]
          /\ WriteTime(w, d)
    /\ tpc' = [tpc EXCEPT ![w] = "rows"]
    /\ UNCHANGED <<concurrency, maxLatency, pc, pools, launched, wg, queryErr,
                   scanOutcome, results>>
    /\ UNCHANGED <<collVars, anaVars, expVars,
                   idleVars, mainVars>>

\* mutant of ReadRows: a scan error makes the task return at once
ReadRowsReturnsOnScanError(w) ==
    /\ tpc[w] = "rows"
    /\ \E o \in {"norow", "scanerr", "row"} :
          /\ scanOutcome' = [scanOutcome EXCEPT ![w] = o]
          /\ tpc' = [tpc EXCEPT ![w] = IF o = "scanerr" THEN "done"
                                                       ELSE "close"]
          /\ wg' = IF o = "scanerr" THEN wg - 1 ELSE wg
    /\ UNCHANGED <<concurrency, maxLatency, poolIndex, pc, pools, inUse,
                   launched, acquisitionTimes, writes, queryErr, sample,
                   results>>
    /\ UNCHANGED <<collVars, anaVars, expVars, idleVars, mainVars>>

\* rows.Next() and rows.Scan(): no row, a scan error (logged), or a row
ReadRows(w) ==
    /\ tpc[w] = "rows"
    /\ \E o \in {"norow", "scanerr", "row"} :
          scanOutcome' = [scanOutcome EXCEPT ![w] = o]
    /\ tpc' = [tpc EXCEPT ![w] = "close"]
    /\ UNCHANGED <<concurrency, maxLatency, poolIndex, pc, pools, inUse, launched, wg,
                   acquisitionTimes, writes, queryErr, sample, results>>
    /\ UNCHANGED <<collVars, anaVars, expVars,
                   idleVars, mainVars>>

\* mutant of CloseRows: the sample is taken again after the release
CloseRowsRecordsTime(w) ==
    /\ tpc[w] = "close"
    /\ inUse' = [inUse EXCEPT ![poolIndex[w]] = @ - 1]
    /\ scanOutcome' = [scanOutcome EXCEPT ![w] = "none"]
    /\ tpc' = [tpc EXCEPT ![w] = "done"]
    /\ wg' = wg - 1
    /\ WriteTime(w, sample[w] + 1)
    /\ UNCHANGED <<concurrency, maxLatency, poolIndex, pc, pools, launched,
                   queryErr, sample, results>>
    /\ UNCHANGED <<collVars, anaVars, expVars, idleVars, mainVars>>

\* rows.Close() releases the connection; the task ends (deferred wg.Done)
\* and its row cursor is gone
CloseRows(w) ==
    /\ tpc[w] = "close"
    /\ inUse' = [inUse EXCEPT ![poolIndex[w]] = @ - 1]
    /\ scanOutcome' = [scanOutcome EXCEPT ![w] = "none"]
    /\ tpc' = [tpc EXCEPT ![w] = "done"]
    /\ wg' = wg - 1
    /\ UNCHANGED <<concurrency, maxLatency, poolIndex, pc, pools, launched,
                   acquisitionTimes, writes, queryErr, sample, results>>
    /\ UNCHANGED <<collVars, anaVars, expVars,
                   idleVars, mainVars>>

(***************************************************************************)
(* runBenchmark: the orchestrating goroutine (main.go:122-245).            *)
(***************************************************************************)
\* one iteration of the pool construction loop succeeds
CreatePool ==
    /\ pc = "pools"
    /\ \E p \in PoolIds :
          /\ pools[p] = "none"
          /\ \A q \in PoolIds : q < p => pools[q] = "open"
          /\ pools' = [pools EXCEPT ![p] = "open"]
          /\ pc' = IF p = NumberOfPoolInstances - 1 THEN "launch" ELSE "pools"
    /\ UNCHANGED <<concurrency, maxLatency, poolIndex, inUse, launched, wg, tpc,
                   acquisitionTimes, writes, queryErr, sample, scanOutcome,
                   results>>
    /\ UNCHANGED <<collVars, anaVars, expVars,
                   idleVars, mainVars>>

\* mutant of CreatePoolFails: the error is logged and the loop goes on
CreatePoolFailsLogged ==
    /\ pc = "pools"
    /\ \E p \in PoolIds :
          /\ pools[p] = "none"
          /\ \A q \in PoolIds : q < p => pools[q] # "none"
          /\ pools' = [pools EXCEPT ![p] = "failed"]
          /\ pc' = IF p = NumberOfPoolInstances - 1 THEN "launch" ELSE "pools"
    /\ UNCHANGED <<concurrency, maxLatency, poolIndex, inUse, launched, wg, tpc,
                   acquisitionTimes, writes, queryErr, sample, scanOutcome,
                   results>>
    /\ UNCHANGED <<collVars, anaVars, expVars, idleVars, mainVars>>

\* ParseConfig or NewWithConfig fails: log.Fatalf ends the process
CreatePoolFails ==
    /\ pc = "pools"
    /\ \E p \in PoolIds :
          /\ pools[p] = "none"
          /\ \A q \in PoolIds : q < p => pools[q] = "open"
          /\ pools' = [pools EXCEPT ![p] = "failed"]
    /\ pc' = "fatal"
    /\ UNCHANGED <<concurrency, maxLatency, poolIndex, inUse, launched, wg, tpc,
                   acquisitionTimes, writes, queryErr, sample, scanOutcome,
                   results>>
    /\ UNCHANGED <<collVars, anaVars, expVars,
                   idleVars, mainVars>>

\* one iteration of the launch loop: wg.Add(1); go func(workerID) {...}(i)
Launch ==
    /\ pc = "launch"
    /\ launched < concurrency
    /\ wg' = wg + 1
    /\ tpc' = [tpc EXCEPT ![launched] = "query"]
    /\ launched' = launched + 1
    /\ UNCHANGED <<concurrency, maxLatency, poolIndex, pc, pools, inUse,
                   acquisitionTimes, writes, queryErr, sample, scanOutcome,
                   results>>
    /\ UNCHANGED <<collVars, anaVars, expVars,
                   idleVars, mainVars>>

\* the launch loop ends
LaunchDone ==
    /\ pc = "launch"
    /\ launched = concurrency
    /\ pc' = "wait"
    /\ UNCHANGED <<concurrency, maxLatency, poolIndex, pools, inUse, launched, wg, tpc,
                   acquisitionTimes, writes, queryErr, sample, scanOutcome,
                   results>>
    /\ UNCHANGED <<collVars, anaVars, expVars,
                   idleVars, mainVars>>

\* wg.Wait() returns
Wait ==
    /\ pc = "wait"
    /\ WaitReturns
    /\ pc' = "aggregate"
    /\ UNCHANGED <<concurrency, maxLatency, poolIndex, pools, inUse, launched, wg, tpc,
                   acquisitionTimes, writes, queryErr, sample, scanOutcome,
                   results>>
    /\ UNCHANGED <<collVars, anaVars, expVars,
                   idleVars, mainVars>>

\* mutant of Return: no pool.Close() is deferred
ReturnLeavesPoolsOpen ==
    /\ pc = "aggregate"
    /\ results' = Append(results,
                         BenchmarkResult(acquisitionTimes, concurrency))
    /\ pc' = "done"
    /\ UNCHANGED <<concurrency, maxLatency, poolIndex, pools, inUse, launched,
                   wg, tpc, acquisitionTimes, writes, queryErr, sample,
                   scanOutcome>>
    /\ UNCHANGED <<collVars, anaVars, expVars, idleVars, mainVars>>

\* the metrics are computed, the result is built and returned; the deferred
\* pool.Close() calls run
Return ==
    /\ pc = "aggregate"
    /\ results' = Append(results,
                         BenchmarkResult(acquisitionTimes, concurrency))
    /\ pools' = [p \in PoolIds |-> "closed"]
    /\ pc' = "done"
    /\ UNCHANGED <<concurrency, maxLatency, poolIndex, inUse, launched, wg, tpc,
                   acquisitionTimes, writes, queryErr, sample, scanOutcome>>
    /\ UNCHANGED <<collVars, anaVars, expVars,
                   idleVars, mainVars>>

Task(w) == QueryErr(w) \/ QueryOk(w) \/ ReadRows(w) \/ CloseRows(w)

\* FindSlowestTraces has not been called
AnalyzerIdle ==
    /\ fpc = "idle"
    /\ findN = 0
    /\ found = << >>
    /\ repc = "idle"
    /\ refound = << >>

\* ExportSlowestTraces has not been called
SlowestExportIdle ==
    /\ clock = 0
    /\ exportCalls = 0
    /\ exportArgs = << >>
    /\ exportErr = <<"none">>

\* no call on the TraceCollector is in progress
ExporterIdle ==
    /\ xspans = << >>
    /\ xpc = "build"
    /\ xerr = "none"
    /\ xfile = "none"
    /\ files = [f \in FileNames |-> <<"absent">>]
    /\ SlowestExportIdle

\* runIdleTest is not running
IdleTestIdle ==
    /\ ipc = "uncalled"
    /\ ipool = "none"
    /\ iheld = 0
    /\ now = 0
    /\ releasedAt = 0
    /\ reacquireStart = 0
    /\ reacquireDuration = 0
    /\ idleResult = << >>
    /\ istates = << >>

\* main is not running
MainIdle ==
    /\ mpc = "uncalled"
    /\ configIndex = 0
    /\ allResults = << >>

CollectorIdle ==
    /\ mu = <<"free">>
    /\ epc = [p \in Producers |-> "idle"]
    /\ ecall = [p \in Producers |-> 0]
    /\ eidx = [p \in Producers |-> 0]
    /\ gpc = "idle"
    /\ snapshot = << >>
    /\ nextCall = 0
    /\ callSize = [c \in 1 .. MaxCalls |-> 0]
    /\ lateCalls = {}
    /\ shutdownCalls = 0
    /\ shutdownErr = "none"

\* NewTraceCollector (main.go:430-434), no call made yet
CollectorInit ==
    /\ tcSpans = << >>
    /\ CollectorIdle

\* runBenchmark has been called with a concurrency
BenchInit ==
    /\ concurrency \in 1 .. MaxConcurrency
    /\ maxLatency \in 1 .. MaxDur
    /\ pc = "pools"
    /\ pools = [p \in PoolIds |-> "none"]
    /\ inUse = [p \in PoolIds |-> 0]
    /\ launched = 0
    /\ wg = 0
    /\ tpc = [w \in Workers |-> "unborn"]
    /\ poolIndex = [w \in Workers |-> 0 - 1]
    /\ acquisitionTimes = [w \in Workers |-> 0]
    /\ writes = [w \in Workers |-> << >>]
    /\ queryErr = [w \in Workers |-> FALSE]
    /\ sample = [w \in Workers |-> 0]
    /\ scanOutcome = [w \in Workers |-> "none"]
    /\ results = << >>

Init ==
    /\ BenchInit /\ CollectorInit /\ AnalyzerIdle /\ ExporterIdle
    /\ IdleTestIdle /\ MainIdle

Next ==
    \/ CreatePool
    \/ CreatePoolFails
    \/ Launch
    \/ LaunchDone
    \/ Wait
    \/ Return
    \/ \E w \in Workers : QueryErr(w)
    \/ \E w \in Workers : QueryOk(w)
    \/ \E w \in Workers : ReadRows(w)
    \/ \E w \in Workers : CloseRows(w)

Spec == Init /\ [][Next]_vars

\* the steps of the orchestrating goroutine that do not end the process
Main == CreatePool \/ Launch \/ LaunchDone \/ Wait \/ Return

\* The Go scheduler runs every runnable goroutine, and every query issued to
\* a pool returns, with rows or with an error.
Fairness ==
    /\ WF_vars(Main)
    /\ \A w \in 0 .. (MaxConcurrency - 1) : WF_vars(w \in Workers /\ Task(w))

\* Whether a run completes does not depend on how long its queries take: the
\* fair specification fixes the latency scale.
FairInit == Init /\ maxLatency = 1

FairSpec == FairInit /\ [][Next]_vars /\ Fairness


(***************************************************************************)
(* TraceCollector (main.go:422-454).  ExportSpans and GetSpans run under   *)
(* tc.mu; the append of a batch is modelled span by span inside the        *)
(* critical section, so that only the mutex makes it atomic.               *)
(***************************************************************************)
\* the i-th span of the batch of call c
SpanOf(c, i) == <<c, i>>

\* the batch of call c
Batch(c) == [i \in 1 .. callSize[c] |-> SpanOf(c, i)]

\* producer p calls ExportSpans with a batch of n spans
ExportCall(p) ==
    /\ epc[p] = "idle"
    /\ nextCall < MaxCalls
    /\ \E n \in 1 .. MaxBatch :
          callSize' = [callSize EXCEPT ![nextCall + 1] = n]
    /\ nextCall' = nextCall + 1
    /\ ecall' = [ecall EXCEPT ![p] = nextCall + 1]
    /\ eidx' = [eidx EXCEPT ![p] = 0]
    /\ lateCalls' = IF shutdownCalls > 0
                    THEN lateCalls \cup {nextCall + 1}
                    ELSE lateCalls
    /\ epc' = [epc EXCEPT ![p] = "lock"]
    /\ UNCHANGED <<tcSpans, mu, gpc, snapshot, shutdownCalls, shutdownErr>>
    /\ UNCHANGED <<benchVars, anaVars, expVars,
                   idleVars, mainVars>>

\* mutant of ExportLock: ExportSpans appends without taking the mutex
ExportLockSkipped(p) ==
    /\ epc[p] = "lock"
    /\ epc' = [epc EXCEPT ![p] = "append"]
    /\ UNCHANGED <<tcSpans, mu, ecall, eidx, gpc, snapshot, nextCall,
                   callSize, lateCalls, shutdownCalls, shutdownErr>>
    /\ UNCHANGED <<benchVars, anaVars, expVars,
                   idleVars, mainVars>>

\* tc.mu.Lock() in ExportSpans
ExportLock(p) ==
    /\ epc[p] = "lock"
    /\ mu = <<"free">>
    /\ mu' = <<"export", p>>
    /\ epc' = [epc EXCEPT ![p] = "append"]
    /\ UNCHANGED <<tcSpans, ecall, eidx, gpc, snapshot, nextCall, callSize,
                   lateCalls, shutdownCalls, shutdownErr>>
    /\ UNCHANGED <<benchVars, anaVars, expVars,
                   idleVars, mainVars>>

\* mutant of ExportAppend: the collector keeps the latest MaxBatch spans
ExportAppendCapped(p) ==
    /\ epc[p] = "append"
    /\ eidx[p] < callSize[ecall[p]]
    /\ tcSpans' = IF Len(tcSpans) >= MaxBatch
                  THEN Append(Tail(tcSpans), SpanOf(ecall[p], eidx[p] + 1))
                  ELSE Append(tcSpans, SpanOf(ecall[p], eidx[p] + 1))
    /\ eidx' = [eidx EXCEPT ![p] = @ + 1]
    /\ UNCHANGED <<mu, epc, ecall, gpc, snapshot, nextCall, callSize,
                   lateCalls, shutdownCalls, shutdownErr>>
    /\ UNCHANGED <<benchVars, anaVars, expVars,
                   idleVars, mainVars>>

\* tc.spans = append(tc.spans, spans...): the next span of the batch
ExportAppend(p) ==
    /\ epc[p] = "append"
    /\ eidx[p] < callSize[ecall[p]]
    /\ tcSpans' = Append(tcSpans, SpanOf(ecall[p], eidx[p] + 1))
    /\ eidx' = [eidx EXCEPT ![p] = @ + 1]
    /\ UNCHANGED <<mu, epc, ecall, gpc, snapshot, nextCall, callSize,
                   lateCalls, shutdownCalls, shutdownErr>>
    /\ UNCHANGED <<benchVars, anaVars, expVars,
                   idleVars, mainVars>>

\* return nil, with the deferred tc.mu.Unlock()
ExportReturn(p) ==
    /\ epc[p] = "append"
    /\ eidx[p] = callSize[ecall[p]]
    /\ mu' = <<"free">>
    /\ epc' = [epc EXCEPT ![p] = "idle"]
    /\ UNCHANGED <<tcSpans, ecall, eidx, gpc, snapshot, nextCall, callSize,
                   lateCalls, shutdownCalls, shutdownErr>>
    /\ UNCHANGED <<benchVars, anaVars, expVars,
                   idleVars, mainVars>>

\* tc.mu.Lock() in GetSpans
GetLock ==
    /\ gpc = "idle"
    /\ mu = <<"free">>
    /\ mu' = <<"get">>
    /\ gpc' = "locked"
    /\ UNCHANGED <<tcSpans, epc, ecall, eidx, snapshot, nextCall, callSize,
                   lateCalls, shutdownCalls, shutdownErr>>
    /\ UNCHANGED <<benchVars, anaVars, expVars,
                   idleVars, mainVars>>

\* return tc.spans, with the deferred tc.mu.Unlock()
GetReturn ==
    /\ gpc = "locked"
    /\ snapshot' = tcSpans
    /\ mu' = <<"free">>
    /\ gpc' = "idle"
    /\ UNCHANGED <<tcSpans, epc, ecall, eidx, nextCall, callSize, lateCalls,
                   shutdownCalls, shutdownErr>>
    /\ UNCHANGED <<benchVars, anaVars, expVars,
                   idleVars, mainVars>>

\* mutant of Shutdown: the collected spans are dropped
ShutdownDiscards ==
    /\ shutdownCalls < MaxShutdowns
    /\ shutdownCalls' = shutdownCalls + 1
    /\ shutdownErr' = "nil"
    /\ tcSpans' = << >>
    /\ UNCHANGED <<mu, epc, ecall, eidx, gpc, snapshot, nextCall, callSize,
                   lateCalls>>
    /\ UNCHANGED <<benchVars, anaVars, expVars,
                   idleVars, mainVars>>

\* Shutdown: return nil
Shutdown ==
    /\ shutdownCalls < MaxShutdowns
    /\ shutdownCalls' = shutdownCalls + 1
    /\ shutdownErr' = "nil"
    /\ UNCHANGED <<tcSpans, mu, epc, ecall, eidx, gpc, snapshot, nextCall,
                   callSize, lateCalls>>
    /\ UNCHANGED <<benchVars, anaVars, expVars,
                   idleVars, mainVars>>

\* runBenchmark is not running
BenchIdle ==
    /\ concurrency = 1
    /\ maxLatency = 1
    /\ pc = "pools"
    /\ pools = [p \in PoolIds |-> "none"]
    /\ inUse = [p \in PoolIds |-> 0]
    /\ launched = 0
    /\ wg = 0
    /\ tpc = [w \in Workers |-> "unborn"]
    /\ poolIndex = [w \in Workers |-> 0 - 1]
    /\ acquisitionTimes = [w \in Workers |-> 0]
    /\ writes = [w \in Workers |-> << >>]
    /\ queryErr = [w \in Workers |-> FALSE]
    /\ sample = [w \in Workers |-> 0]
    /\ scanOutcome = [w \in Workers |-> "none"]
    /\ results = << >>

CollectorSpecInit ==
    /\ BenchIdle /\ CollectorInit /\ AnalyzerIdle /\ ExporterIdle
    /\ IdleTestIdle /\ MainIdle

CollectorNext ==
    \/ \E p \in Producers : ExportCall(p)
    \/ \E p \in Producers : ExportLock(p)
    \/ \E p \in Producers : ExportAppend(p)
    \/ \E p \in Producers : ExportReturn(p)
    \/ GetLock
    \/ GetReturn
    \/ Shutdown

CollectorSpec == CollectorSpecInit /\ [][CollectorNext]_vars


(***************************************************************************)
(* FindSlowestTraces (trace_exporter.go:19-62), applied to the spans a     *)
(* collector holds after a number of ExportSpans calls.                    *)
(***************************************************************************)
SpanNames == {"worker.request", "db.query"}

\* the span recorded at position i of the collector: it belongs to trace
\* f.traceID, is named f.name, started at tick i and took f.dur ticks
MkSpan(i, f) ==
    [spanID    |-> i,
     traceID   |-> f.traceID,
     name      |-> f.name,
     startTime |-> i,
     endTime   |-> i + f.dur]

\* the keys of traceMap
TraceIDsOf(spans) == {spans[i].traceID : i \in 1 .. Len(spans)}

\* ExportSpans, called with one completed span while no other call is in
\* progress, appends it.  Trace identifiers are opaque map keys: the traces
\* are numbered in the order of their first span.
RecordSpan ==
    /\ fpc = "idle"
    /\ mu = <<"free">>
    /\ Len(tcSpans) < MaxSpans
    /\ \E f \in [traceID : 1 .. (Cardinality(TraceIDsOf(tcSpans)) + 1),
                  name    : SpanNames,
                  dur     : 0 .. MaxSpanDur] :
          tcSpans' = Append(tcSpans, MkSpan(Len(tcSpans) + 1, f))
    /\ UNCHANGED <<mu, epc, ecall, eidx, gpc, snapshot, nextCall, callSize,
                   lateCalls, shutdownCalls, shutdownErr>>
    /\ UNCHANGED <<benchVars, anaVars, expVars,
                   idleVars, mainVars>>

\* mutant of GroupSpans: every span is put in front of the earlier ones
GroupSpansPrepended(spans, t) ==
    LET g == SelectSeq(spans, LAMBDA sp : sp.traceID = t)
    IN  [i \in 1 .. Len(g) |-> g[Len(g) + 1 - i]]

\* traceMap[t]: the spans of trace t, appended in snapshot order
GroupSpans(spans, t) == SelectSeq(spans, LAMBDA sp : sp.traceID = t)

\* span.EndTime().Sub(span.StartTime())
Elapsed(sp) == sp.endTime - sp.startTime

\* mutant of MaxRootDuration: the name of the span is not looked at
RECURSIVE MaxDurationAnyName(_, _, _)
MaxDurationAnyName(spans, i, maxDuration) ==
    IF i > Len(spans) THEN maxDuration
    ELSE IF Elapsed(spans[i]) > maxDuration
         THEN MaxDurationAnyName(spans, i + 1, Elapsed(spans[i]))
         ELSE MaxDurationAnyName(spans, i + 1, maxDuration)

\* mutant of MaxRootDuration: every root span overwrites maxDuration
RECURSIVE MaxRootDurationLast(_, _, _)
MaxRootDurationLast(spans, i, maxDuration) ==
    IF i > Len(spans) THEN maxDuration
    ELSE IF spans[i].name = "worker.request"
         THEN MaxRootDurationLast(spans, i + 1, Elapsed(spans[i]))
         ELSE MaxRootDurationLast(spans, i + 1, maxDuration)

\* the loop over the spans of one trace, from span i on
RECURSIVE MaxRootDuration(_, _, _)
MaxRootDuration(spans, i, maxDuration) ==
    IF i > Len(spans) THEN maxDuration
    ELSE IF spans[i].name = "worker.request" /\ Elapsed(spans[i]) > maxDuration
         THEN MaxRootDuration(spans, i + 1, Elapsed(spans[i]))
         ELSE MaxRootDuration(spans, i + 1, maxDuration)

TraceInfo(spans, t) ==
    [TraceID  |-> t,
     Duration |-> MaxRootDuration(GroupSpans(spans, t), 1, 0),
     Spans    |-> GroupSpans(spans, t)]

\* the orders in which `for traceID, spans := range traceMap` can visit the
\* keys: Go leaves the iteration order of a map unspecified
MapOrders(ids) ==
    {o \in [1 .. Cardinality(ids) -> ids] :
        \A i, j \in DOMAIN o : i # j => o[i] # o[j]}

\* mutant of Less: the comparison is reversed
LessAscending(a, b) == a.Duration < b.Duration

\* the less function given to sort.Slice
Less(a, b) == a.Duration > b.Duration

\* sort.Slice on a slice of at most 12 elements is an insertion sort:
\* the inner loop moves data[j] down while it is less than data[j-1]
RECURSIVE SinkDown(_, _)
SinkDown(data, j) ==
    IF j > 1 /\ Less(data[j], data[j - 1])
    THEN SinkDown([data EXCEPT ![j] = data[j - 1], ![j - 1] = data[j]], j - 1)
    ELSE data

RECURSIVE InsertionSort(_, _)
InsertionSort(data, i) ==
    IF i > Len(data) THEN data
    ELSE InsertionSort(SinkDown(data, i), i + 1)

SortSlice(data) == InsertionSort(data, 2)

\* the traces slice after the sort, for one iteration order of the map
RankedTraces(spans, order) ==
    SortSlice([i \in DOMAIN order |-> TraceInfo(spans, order[i])])

\* traces[:n] panics when n is negative
TruncatePanics(traces, n) == Len(traces) > n /\ n < 0

\* if len(traces) > n { traces = traces[:n] }
Truncate(traces, n) ==
    IF Len(traces) > n THEN SubSeq(traces, 1, n) ELSE traces

\* collector.GetSpans() with no other call in progress
GetSpans == tcSpans

\* what FindSlowestTraces(collector, n) returns for one iteration order of
\* the map, or <<"panic">> when the slice expression panics
FindResult(spans, n, order) ==
    LET traces == RankedTraces(spans, order)
    IN  IF TruncatePanics(traces, n)
        THEN <<"panic">>
        ELSE <<"ok", Truncate(traces, n)>>

\* one call FindSlowestTraces(collector, n)
FindSlowestTraces ==
    /\ fpc = "idle"
    /\ mu = <<"free">>
    /\ \E n \in (0 - 1) .. MaxK :
       \E r \in {FindResult(GetSpans, n, order) :
                    order \in MapOrders(TraceIDsOf(GetSpans))} :
          /\ findN' = n
          /\ fpc' = IF r[1] = "panic" THEN "panicked" ELSE "returned"
          /\ found' = IF r[1] = "panic" THEN << >> ELSE r[2]
    /\ UNCHANGED <<repc, refound>>
    /\ UNCHANGED <<benchVars, collVars, expVars,
                   idleVars, mainVars>>

\* a second call FindSlowestTraces(collector, n) with the n of the first
\* call, on a collector that has not changed in between: the call builds its
\* own traceMap and ranges over it in an order of its own
FindSlowestTracesAgain ==
    /\ fpc # "idle"
    /\ repc = "idle"
    /\ mu = <<"free">>
    /\ \E r \in {FindResult(GetSpans, findN, order) :
                    order \in MapOrders(TraceIDsOf(GetSpans))} :
          /\ repc' = IF r[1] = "panic" THEN "panicked" ELSE "returned"
          /\ refound' = IF r[1] = "panic" THEN << >> ELSE r[2]
    /\ UNCHANGED <<fpc, findN, found>>
    /\ UNCHANGED <<benchVars, collVars, expVars,
                   idleVars, mainVars>>

AnalyzerInit ==
    /\ BenchIdle /\ CollectorInit /\ AnalyzerIdle /\ ExporterIdle
    /\ IdleTestIdle /\ MainIdle

AnalyzerNext ==
    \/ RecordSpan
    \/ FindSlowestTraces

AnalyzerSpec == AnalyzerInit /\ [][AnalyzerNext]_vars

\* the analyzer called twice in a row on the same collector
RepeatInit ==
    /\ BenchIdle /\ CollectorInit /\ AnalyzerIdle /\ ExporterIdle
    /\ IdleTestIdle /\ MainIdle

RepeatNext ==
    \/ RecordSpan
    \/ FindSlowestTraces
    \/ FindSlowestTracesAgain

RepeatSpec == RepeatInit /\ [][RepeatNext]_vars

(***************************************************************************)
(* ExportTraceToJSON (main.go:566-710).  A span handed to the exporter     *)
(* carries identifiers (byte strings), timestamps and typed attributes.    *)
(* The JSON document is a tree whose leaves are the texts json.Marshal     *)
(* writes: <<"str", chars>>, <<"num", chars>> and <<"bool", b>>.  A Go     *)
(* string is a sequence of units, each a character or a byte that is not   *)
(* valid UTF-8.                                                            *)
(***************************************************************************)
HexDigits == <<"0", "1", "2", "3", "4", "5", "6", "7",
               "8", "9", "a", "b", "c", "d", "e", "f">>

\* TraceID.String() / SpanID.String(): two lower-case hex digits per byte
RECURSIVE HexString(_)
HexString(bytes) ==
    IF bytes = << >> THEN << >>
    ELSE <<HexDigits[(Head(bytes) \div 16) + 1],
           HexDigits[(Head(bytes) % 16) + 1]>> \o HexString(Tail(bytes))

\* SpanID.IsValid(): some byte is not zero
IsValid(bytes) == \E i \in 1 .. Len(bytes) : bytes[i] # 0

DecDigits == <<"0", "1", "2", "3", "4", "5", "6", "7", "8", "9">>

\* the decimal digits of a natural number
RECURSIVE FormatNat(_)
FormatNat(n) ==
    IF n < 10 THEN <<DecDigits[n + 1]>>
    ELSE FormatNat(n \div 10) \o <<DecDigits[(n % 10) + 1]>>

\* encoding/json writes an int64 in decimal
FormatInt(n) == IF n < 0 THEN <<"-">> \o FormatNat(0 - n) ELSE FormatNat(n)

\* a float64 attribute value is finite (a number of halves) or NaN or an
\* infinity; encoding/json writes a finite value in its shortest decimal
\* form and refuses the others
FloatIsFinite(x) == x.class = "finite"

FormatFloat(x) ==
    LET a    == IF x.halves < 0 THEN 0 - x.halves ELSE x.halves
        sign == IF x.halves < 0 THEN <<"-">> ELSE << >>
        frac == IF a % 2 = 1 THEN <<".", "5">> ELSE << >>
    IN  sign \o FormatNat(a \div 2) \o frac

\* the unit written for one unit of a Go string: encoding/json replaces
\* a byte that is not valid UTF-8 by U+FFFD
CoerceUnit(u) == IF u = "0xFF" THEN "U+FFFD" ELSE u

\* a Go string as a JSON string
JSONString(s) == <<"str", [i \in 1 .. Len(s) |-> CoerceUnit(s[i])]>>

\* the values an attribute of each type can hold
AttrTypes == {"STRING", "INT64", "FLOAT64", "BOOL"}

AttrValues(type) ==
    CASE type = "STRING"  -> {<< >>, <<"a">>, <<"0xFF">>}
      [] type = "INT64"   -> {0, 7}
      [] type = "FLOAT64" -> {[class |-> "finite", halves |-> 0],
                              [class |-> "finite", halves |-> 0 - 3],
                              [class |-> "NaN", halves |-> 0]}
      [] type = "BOOL"    -> {FALSE, TRUE}

AttrKeys == {<<"k">>, <<"w", "i">>}

\* the switch on attr.Value.Type(): the OTLPValue of an attribute, as the
\* JSON object of its non-nil pointer fields
OTLPValue(attr) ==
    CASE attr.type = "STRING"  -> [stringValue |-> JSONString(attr.v)]
      [] attr.type = "INT64"   -> [intValue |-> <<"num", FormatInt(attr.v)>>]
      [] attr.type = "FLOAT64" ->
             [doubleValue |-> <<"num", FormatFloat(attr.v)>>]
      [] attr.type = "BOOL"    -> [boolValue |-> <<"bool", attr.v>>]

OTLPAttribute(attr) ==
    [key |-> JSONString(attr.key), value |-> OTLPValue(attr)]

\* json.Marshal fails on a float that is not finite
Marshallable(spans) ==
    \A i \in 1 .. Len(spans) :
        \A k \in 1 .. Len(spans[i].attributes) :
            LET attr == spans[i].attributes[k]
            IN  attr.type = "FLOAT64" => FloatIsFinite(attr.v)

\* ConvertSpanToOTLP, as the JSON object of the OTLPSpan: parentSpanId and
\* attributes carry omitempty
ConvertSpanToOTLP(span) ==
    LET always ==
            [traceId   |-> <<"str", HexString(span.traceID)>>,
             spanId    |-> <<"str", HexString(span.spanID)>>,
             traceState |-> <<"str", << >> >>,
             name      |-> JSONString(span.name),
             kind      |-> <<"str", <<"SPAN_KIND_INTERNAL">> >>,
             startTimeUnixNano |-> <<"num", FormatInt(span.startTime)>>,
             endTimeUnixNano   |-> <<"num", FormatInt(span.endTime)>>,
             droppedAttributesCount |-> <<"num", FormatInt(0)>>,
             droppedEventsCount     |-> <<"num", FormatInt(0)>>,
             droppedLinksCount      |-> <<"num", FormatInt(0)>>,
             status    |-> [code |-> <<"num", FormatInt(0)>>]]
        parent ==
            IF IsValid(span.parent)
            THEN [parentSpanId |-> <<"str", HexString(span.parent)>>]
            ELSE << >>
        attrs ==
            IF Len(span.attributes) > 0
            THEN [attributes |->
                     [k \in 1 .. Len(span.attributes) |->
                         OTLPAttribute(span.attributes[k])]]
            ELSE << >>
    IN  always @@ parent @@ attrs

\* mutant of OTLPSpans: the converted spans are prepended
OTLPSpansPrepended(spans) ==
    [i \in 1 .. Len(spans) |-> ConvertSpanToOTLP(spans[Len(spans) + 1 - i])]

\* otlpSpans: the loop appends the conversion of every span, in order
OTLPSpans(spans) ==
    [i \in 1 .. Len(spans) |-> ConvertSpanToOTLP(spans[i])]

\* the OTLPTrace document json.MarshalIndent writes for the spans
OTLPTrace(spans) ==
    [batches |->
       << [resource |->
             [attributes |->
                 << [key   |-> <<"str", <<"service.name">> >>,
                     value |-> [stringValue |-> <<"str", <<"pgx-benchmark">> >>]],
                    [key   |-> <<"str", <<"service.version">> >>,
                     value |-> [stringValue |-> <<"str", <<"1.0.0">> >>]] >>,
              droppedAttributesCount |-> <<"num", FormatInt(0)>>],
           instrumentationLibrarySpans |->
             << [instrumentationLibrary |->
                    [name    |-> <<"str", <<"pgx-benchmark">> >>,
                     version |-> <<"str", <<"1.0.0">> >>],
                 spans |-> OTLPSpans(spans)] >>] >>]

\* reading the document back (json.Unmarshal into OTLPTrace): the value of
\* a hex digit, of a hex string, of a decimal text
HexValue(d) == CHOOSE v \in 0 .. 15 : HexDigits[v + 1] = d

RECURSIVE ParseHex(_)
ParseHex(chars) ==
    IF Len(chars) < 2 THEN << >>
    ELSE <<HexValue(chars[1]) * 16 + HexValue(chars[2])>>
             \o ParseHex(SubSeq(chars, 3, Len(chars)))

DecValue(d) == CHOOSE v \in 0 .. 9 : DecDigits[v + 1] = d

RECURSIVE ParseNat(_, _)
ParseNat(chars, acc) ==
    IF chars = << >> THEN acc
    ELSE ParseNat(Tail(chars), acc * 10 + DecValue(Head(chars)))

ParseInt(chars) ==
    IF Head(chars) = "-" THEN 0 - ParseNat(Tail(chars), 0)
    ELSE ParseNat(chars, 0)

ParseFloat(chars) ==
    LET neg    == Head(chars) = "-"
        digits == IF neg THEN Tail(chars) ELSE chars
        half   == Len(digits) > 2 /\ digits[Len(digits) - 1] = "."
        whole  == IF half THEN SubSeq(digits, 1, Len(digits) - 2) ELSE digits
        a      == 2 * ParseNat(whole, 0) + (IF half THEN 1 ELSE 0)
    IN  [class |-> "finite", halves |-> IF neg THEN 0 - a ELSE a]

\* the attribute an OTLPAttribute object stands for: its type is the one
\* pointer field of the value that is present
ParseAttribute(obj) ==
    LET fields == DOMAIN obj.value
    IN  CASE "stringValue" \in fields ->
                 [key |-> obj.key[2], type |-> "STRING",
                  v |-> obj.value.stringValue[2]]
          [] "intValue" \in fields ->
                 [key |-> obj.key[2], type |-> "INT64",
                  v |-> ParseInt(obj.value.intValue[2])]
          [] "doubleValue" \in fields ->
                 [key |-> obj.key[2], type |-> "FLOAT64",
                  v |-> ParseFloat(obj.value.doubleValue[2])]
          [] "boolValue" \in fields ->
                 [key |-> obj.key[2], type |-> "BOOL",
                  v |-> obj.value.boolValue[2]]

\* the span an OTLPSpan object stands for; an omitted parentSpanId reads
\* back as the empty string and omitted attributes as no attributes
ParseSpan(obj) ==
    [traceID    |-> ParseHex(obj.traceId[2]),
     spanID     |-> ParseHex(obj.spanId[2]),
     hasParent  |-> "parentSpanId" \in DOMAIN obj,
     parent     |-> IF "parentSpanId" \in DOMAIN obj
                    THEN ParseHex(obj.parentSpanId[2]) ELSE << >>,
     name       |-> obj.name[2],
     startTime  |-> ParseInt(obj.startTimeUnixNano[2]),
     endTime    |-> ParseInt(obj.endTimeUnixNano[2]),
     attributes |-> IF "attributes" \in DOMAIN obj
                    THEN [k \in 1 .. Len(obj.attributes) |->
                             ParseAttribute(obj.attributes[k])]
                    ELSE << >>]

\* the spans of a document
ParseTrace(doc) ==
    LET list == doc.batches[1].instrumentationLibrarySpans[1].spans
    IN  [i \in 1 .. Len(list) |-> ParseSpan(list[i])]

\* the trace identifiers a trace can have and the parent a span can have:
\* none (the zero SpanID) or a valid one
TraceIDs == {<<0, 26>>, <<171, 9>>}
ParentIDs == {<<0>>, <<240>>}

\* a document left by an earlier export
EarlierDocument ==
    OTLPTrace(<< [traceID |-> <<255, 255>>, spanID |-> <<1>>,
                  parent |-> <<0>>, name |-> <<"worker.request">>,
                  startTime |-> 1, endTime |-> 2, attributes |-> << >>] >>)

RECURSIVE AttrCount(_)
AttrCount(spans) ==
    IF spans = << >> THEN 0
    ELSE Len(spans[Len(spans)].attributes)
             + AttrCount(SubSeq(spans, 1, Len(spans) - 1))

\* a completed span joins the slice that will be exported; the spans of
\* one export belong to one trace
StartSpan ==
    /\ xpc = "build"
    /\ Len(xspans) < MaxExportSpans
    /\ \E t \in TraceIDs, p \in ParentIDs :
          /\ xspans # << >> => t = xspans[1].traceID
          /\ xspans' = Append(xspans,
                 [traceID    |-> t,
                  spanID     |-> <<Len(xspans) + 1>>,
                  parent     |-> p,
                  name       |-> <<"worker.request">>,
                  startTime  |-> 98 + Len(xspans),
                  endTime    |-> 100 + Len(xspans),
                  attributes |-> << >>])
    /\ UNCHANGED <<xpc, xerr, xfile, files>>
    /\ UNCHANGED <<clock, exportCalls, exportArgs, exportErr>>
    /\ UNCHANGED <<benchVars, collVars, anaVars,
                   idleVars, mainVars>>

\* span.SetAttributes on the latest span
SetAttribute ==
    /\ xpc = "build"
    /\ xspans # << >>
    /\ AttrCount(xspans) < MaxExportAttrs
    /\ \E key \in AttrKeys, type \in AttrTypes :
       \E v \in AttrValues(type) :
          xspans' = [xspans EXCEPT ![Len(xspans)].attributes =
                        Append(@, [key |-> key, type |-> type, v |-> v])]
    /\ UNCHANGED <<xpc, xerr, xfile, files>>
    /\ UNCHANGED <<clock, exportCalls, exportArgs, exportErr>>
    /\ UNCHANGED <<benchVars, collVars, anaVars,
                   idleVars, mainVars>>

\* mutant of ExportTraceToJSON: the test for an empty slice is missing
ExportTraceToJSONAnyLength ==
    /\ xpc = "build"
    /\ Marshallable(xspans)
    /\ \E f \in FileNames :
          /\ xfile' = f
          /\ xerr' = "nil"
          /\ files' = [files EXCEPT ![f] = <<"json", OTLPTrace(xspans)>>]
    /\ xpc' = "returned"
    /\ UNCHANGED <<xspans, clock, exportCalls, exportArgs, exportErr>>
    /\ UNCHANGED <<benchVars, collVars, anaVars,
                   idleVars, mainVars>>

\* os.WriteFile(filename, jsonData, 0644): the file holds the document, or
\* the call fails, before it opened the file or after it truncated it
\* (fs is the file system the call finds)
WriteFile(fs, f, doc) ==
    {<<"nil", (f :> <<"json", doc>>) @@ fs>>,
     <<"failed to write trace file", fs>>,
     <<"failed to write trace file", (f :> <<"empty">>) @@ fs>>}

\* what ExportTraceToJSON(spans, f) returns and leaves on the file system
ExportOutcomes(fs, spans, f) ==
    IF Len(spans) = 0
    THEN {<<"no spans to export", fs>>}
    ELSE IF ~Marshallable(spans)
    THEN {<<"failed to marshal trace to JSON", fs>>}
    ELSE WriteFile(fs, f, OTLPTrace(spans))

\* one call ExportTraceToJSON(spans, filename)
ExportTraceToJSON ==
    /\ xpc = "build"
    /\ \E f \in FileNames :
          /\ xfile' = f
          /\ \E w \in ExportOutcomes(files, xspans, f) :
                /\ xerr' = w[1]
                /\ files' = w[2]
    /\ xpc' = "returned"
    /\ UNCHANGED <<xspans, clock, exportCalls, exportArgs, exportErr>>
    /\ UNCHANGED <<benchVars, collVars, anaVars,
                   idleVars, mainVars>>

\* no export has been called; trace_1.json is left from an earlier export
ExporterInit ==
    /\ BenchIdle /\ CollectorInit /\ AnalyzerIdle
    /\ IdleTestIdle /\ MainIdle
    /\ xspans = << >>
    /\ xpc = "build"
    /\ xerr = "none"
    /\ xfile = "none"
    /\ files = [f \in FileNames |->
                   IF f = "trace_1.json" THEN <<"json", EarlierDocument>>
                   ELSE <<"absent">>]
    /\ SlowestExportIdle

ExporterNext ==
    \/ StartSpan
    \/ SetAttribute
    \/ ExportTraceToJSON

ExporterSpec == ExporterInit /\ [][ExporterNext]_vars

(***************************************************************************)
(* ExportSlowestTraces: the slowest traces of the collector are written to *)
(* files named after the connection type, the rank and the time.           *)
(***************************************************************************)
\* the connection types of the configurations
ConnTypes == {"pgbouncer-session", "pgbouncer-transaction"}

\* time.Now().Format("20060102150405"): the clock cut to whole seconds
Timestamp(t) == FormatNat(t \div TicksPerSecond)

\* fmt.Sprintf("trace_slowest_%s_%d_%s.json", connType, rank, timestamp)
FileName(connType, rank, timestamp) ==
    <<"trace_slowest_", connType, "_", FormatNat(rank), "_", timestamp,
      ".json">>

\* fmt.Sprintf("trace_slowest_%s_top%d_%s.json", connType, count, timestamp)
FileNameTop(connType, count, timestamp) ==
    <<"trace_slowest_", connType, "_top", FormatNat(count), "_", timestamp,
      ".json">>

\* what ConvertSpanToOTLP reads from a span of the collector: its
\* identifiers as bytes, no parent (a root span), its name as a Go string
ReadOnlySpan(sp) ==
    [traceID    |-> <<0, sp.traceID>>,
     spanID     |-> <<sp.spanID>>,
     parent     |-> <<0>>,
     name       |-> <<sp.name>>,
     startTime  |-> sp.startTime,
     endTime    |-> sp.endTime,
     attributes |-> << >>]

ReadOnlySpans(spans) == [i \in 1 .. Len(spans) |-> ReadOnlySpan(spans[i])]

\* the loop over slowestTraces from rank i on: every trace goes to a file
\* of its own; the first error ends the loop and is returned wrapped
RECURSIVE ExportRanks(_, _, _, _, _)
ExportRanks(fs, slowestTraces, i, connType, timestamp) ==
    IF i > Len(slowestTraces) THEN {<< <<"nil">>, fs >>}
    ELSE UNION
           {IF w[1] = "nil"
            THEN ExportRanks(w[2], slowestTraces, i + 1, connType, timestamp)
            ELSE {<< <<"failed to export trace", FormatNat(i), w[1]>>,
                     w[2] >>} :
               w \in ExportOutcomes(fs,
                         ReadOnlySpans(slowestTraces[i].Spans),
                         FileName(connType, i, timestamp))}

\* allSpans: the spans of all the slowest traces, appended trace by trace
RECURSIVE AllSpans(_)
AllSpans(slowestTraces) ==
    IF slowestTraces = << >> THEN << >>
    ELSE Head(slowestTraces).Spans \o AllSpans(Tail(slowestTraces))

\* the copy of the function that writes one file for all the traces
ExportTop(fs, slowestTraces, connType, timestamp) ==
    {<< IF w[1] = "nil" THEN <<"nil">>
        ELSE <<"failed to export traces", w[1]>>,
        w[2] >> :
       w \in ExportOutcomes(fs, ReadOnlySpans(AllSpans(slowestTraces)),
                 FileNameTop(connType, Len(slowestTraces), timestamp))}

\* tracer.Start(ctx, "worker.request") ... span.End(): a root span of a new
\* trace ends and reaches the collector; span i took i - 1 ticks
EndRootSpan ==
    /\ exportErr # <<"panic">>
    /\ mu = <<"free">>
    /\ Len(tcSpans) < MaxSpans
    /\ LET i == Len(tcSpans) + 1
       IN  tcSpans' = Append(tcSpans,
               MkSpan(i, [traceID |-> i, name |-> "worker.request",
                          dur |-> i - 1]))
    /\ UNCHANGED <<mu, epc, ecall, eidx, gpc, snapshot, nextCall, callSize,
                   lateCalls, shutdownCalls, shutdownErr>>
    /\ UNCHANGED <<benchVars, anaVars, expVars,
                   idleVars, mainVars>>

\* time passes
Tick ==
    /\ exportErr # <<"panic">>
    /\ clock < MaxTicks
    /\ clock' = clock + 1
    /\ UNCHANGED <<xspans, xpc, xerr, xfile, files, exportCalls, exportArgs,
                   exportErr>>
    /\ UNCHANGED <<benchVars, collVars, anaVars,
                   idleVars, mainVars>>

\* what a call does once FindSlowestTraces has returned r
ExportSlowestReturns(r, export) ==
    IF r[1] = "panic"
    THEN exportErr' = <<"panic">> /\ files' = files
    ELSE IF Len(r[2]) = 0
    THEN exportErr' = <<"no traces found to export">> /\ files' = files
    ELSE \E w \in export :
            /\ exportErr' = w[1]
            /\ files' = w[2]

\* one call ExportSlowestTraces(collector, connType, numToExport)
ExportSlowestTraces ==
    /\ exportErr # <<"panic">>
    /\ exportCalls < MaxExportCalls
    /\ mu = <<"free">>
    /\ \E connType \in ConnTypes, numToExport \in (0 - 1) .. MaxK :
       \E order \in MapOrders(TraceIDsOf(GetSpans)) :
          LET r == FindResult(GetSpans, numToExport, order)
          IN  /\ exportArgs' = <<connType, numToExport>>
              /\ ExportSlowestReturns(r,
                     IF r[1] = "panic" THEN {}
                     ELSE ExportRanks(files, r[2], 1, connType,
                                      Timestamp(clock)))
    /\ exportCalls' = exportCalls + 1
    /\ UNCHANGED <<xspans, xpc, xerr, xfile, clock>>
    /\ UNCHANGED <<benchVars, collVars, anaVars,
                   idleVars, mainVars>>

\* one call of the copy of ExportSlowestTraces that writes a single file
ExportSlowestTracesTop ==
    /\ exportErr # <<"panic">>
    /\ exportCalls < MaxExportCalls
    /\ mu = <<"free">>
    /\ \E connType \in ConnTypes, numToExport \in (0 - 1) .. MaxK :
       \E order \in MapOrders(TraceIDsOf(GetSpans)) :
          LET r == FindResult(GetSpans, numToExport, order)
          IN  /\ exportArgs' = <<connType, numToExport>>
              /\ ExportSlowestReturns(r,
                     IF r[1] = "panic" THEN {}
                     ELSE ExportTop(files, r[2], connType,
                                    Timestamp(clock)))
    /\ exportCalls' = exportCalls + 1
    /\ UNCHANGED <<xspans, xpc, xerr, xfile, clock>>
    /\ UNCHANGED <<benchVars, collVars, anaVars,
                   idleVars, mainVars>>

\* the collector is empty and the directory holds no file
SlowestExportInit ==
    /\ BenchIdle /\ CollectorInit /\ AnalyzerIdle
    /\ IdleTestIdle /\ MainIdle
    /\ xspans = << >>
    /\ xpc = "build"
    /\ xerr = "none"
    /\ xfile = "none"
    /\ files = << >>
    /\ SlowestExportIdle

SlowestExportNext ==
    \/ EndRootSpan
    \/ Tick
    \/ ExportSlowestTraces
    \/ ExportSlowestTracesTop

SlowestExportSpec == SlowestExportInit /\ [][SlowestExportNext]_vars

(***************************************************************************)
(* runIdleTest (main.go:247-313): one pool of its own, acquire, query,     *)
(* release, sleep, reacquire (timed), query, release.  Every error is a    *)
(* log.Fatalf, which ends the process.  now is the clock; each blocking    *)
(* call and the sleep advance it.                                          *)
(***************************************************************************)
\* what a blocking call of the idle test can take
IdleLatencies == 0 .. MaxIdleLatency

\* mutant of ReacquireStartTime: the start is taken before the sleep
ReacquireStartAtRelease(t) == releasedAt

\* reacquireStart := time.Now(), taken when the clock shows t
ReacquireStartTime(t) == t

\* mutant of SleepReturns: the sleep takes no time
SleepReturnsAtOnce == now

\* time.Sleep(10 * time.Second): the clock when it returns
SleepReturns == now + IdlePeriod

\* ParseConfig and NewWithConfig succeed; defer pool.Close()
IdleCreatePool ==
    /\ ipc = "start"
    /\ ipool' = "open"
    /\ ipc' = "acquire"
    /\ istates' = Append(istates, "Idle")
    /\ UNCHANGED <<iheld, now, releasedAt, reacquireStart,
                   reacquireDuration, idleResult>>
    /\ UNCHANGED <<benchVars, collVars, anaVars, expVars, mainVars>>

\* ParseConfig or NewWithConfig fails
IdleCreatePoolFails ==
    /\ ipc = "start"
    /\ ipc' = "fatal"
    /\ UNCHANGED <<ipool, iheld, now, releasedAt, reacquireStart,
                   reacquireDuration, idleResult, istates>>
    /\ UNCHANGED <<benchVars, collVars, anaVars, expVars, mainVars>>

\* conn, err := pool.Acquire(ctx) returns a connection
FirstAcquire ==
    /\ ipc = "acquire"
    /\ \E d \in IdleLatencies : now' = now + d
    /\ iheld' = iheld + 1
    /\ ipc' = "query"
    /\ istates' = Append(istates, "Acquired")
    /\ UNCHANGED <<ipool, releasedAt, reacquireStart, reacquireDuration,
                   idleResult>>
    /\ UNCHANGED <<benchVars, collVars, anaVars, expVars, mainVars>>

\* pool.Acquire returns an error
FirstAcquireFails ==
    /\ ipc = "acquire"
    /\ \E d \in IdleLatencies : now' = now + d
    /\ ipc' = "fatal"
    /\ UNCHANGED <<ipool, iheld, releasedAt, reacquireStart,
                   reacquireDuration, idleResult, istates>>
    /\ UNCHANGED <<benchVars, collVars, anaVars, expVars, mainVars>>

\* conn.QueryRow(...).Scan(&count) succeeds, first or second time
IdleQuery ==
    /\ ipc \in {"query", "requery"}
    /\ \E d \in IdleLatencies : now' = now + d
    /\ ipc' = IF ipc = "query" THEN "release" ELSE "rerelease"
    /\ UNCHANGED <<ipool, iheld, releasedAt, reacquireStart,
                   reacquireDuration, idleResult, istates>>
    /\ UNCHANGED <<benchVars, collVars, anaVars, expVars, mainVars>>

\* the query fails: log.Fatalf while the connection is held
IdleQueryFails ==
    /\ ipc \in {"query", "requery"}
    /\ \E d \in IdleLatencies : now' = now + d
    /\ ipc' = "fatal"
    /\ UNCHANGED <<ipool, iheld, releasedAt, reacquireStart,
                   reacquireDuration, idleResult, istates>>
    /\ UNCHANGED <<benchVars, collVars, anaVars, expVars, mainVars>>

\* the first conn.Release()
FirstRelease ==
    /\ ipc = "release"
    /\ iheld' = iheld - 1
    /\ releasedAt' = now
    /\ ipc' = "sleep"
    /\ istates' = Append(istates, "Released")
    /\ UNCHANGED <<ipool, now, reacquireStart, reacquireDuration,
                   idleResult>>
    /\ UNCHANGED <<benchVars, collVars, anaVars, expVars, mainVars>>

\* time.Sleep is entered
IdleSleep ==
    /\ ipc = "sleep"
    /\ ipc' = "sleeping"
    /\ istates' = Append(istates, "Idling")
    /\ UNCHANGED <<ipool, iheld, now, releasedAt, reacquireStart,
                   reacquireDuration, idleResult>>
    /\ UNCHANGED <<benchVars, collVars, anaVars, expVars, mainVars>>

\* time.Sleep returns; reacquireStart := time.Now(); pool.Acquire is called
ReacquireStart ==
    /\ ipc = "sleeping"
    /\ now' = SleepReturns
    /\ reacquireStart' = ReacquireStartTime(SleepReturns)
    /\ ipc' = "reacquire"
    /\ istates' = Append(istates, "Reacquiring")
    /\ UNCHANGED <<ipool, iheld, releasedAt, reacquireDuration, idleResult>>
    /\ UNCHANGED <<benchVars, collVars, anaVars, expVars, mainVars>>

\* the second pool.Acquire returns a connection;
\* reacquireDuration := time.Since(reacquireStart)
Reacquire ==
    /\ ipc = "reacquire"
    /\ \E d \in IdleLatencies : now' = now + d
    /\ reacquireDuration' = now' - reacquireStart
    /\ iheld' = iheld + 1
    /\ ipc' = "requery"
    /\ istates' = Append(istates, "Acquired")
    /\ UNCHANGED <<ipool, releasedAt, reacquireStart, idleResult>>
    /\ UNCHANGED <<benchVars, collVars, anaVars, expVars, mainVars>>

\* the second pool.Acquire returns an error
ReacquireFails ==
    /\ ipc = "reacquire"
    /\ \E d \in IdleLatencies : now' = now + d
    /\ ipc' = "fatal"
    /\ UNCHANGED <<ipool, iheld, releasedAt, reacquireStart,
                   reacquireDuration, idleResult, istates>>
    /\ UNCHANGED <<benchVars, collVars, anaVars, expVars, mainVars>>

\* the second conn.Release(); return reacquireDuration; the deferred
\* pool.Close() runs
IdleReturn ==
    /\ ipc = "rerelease"
    /\ iheld' = iheld - 1
    /\ idleResult' = <<reacquireDuration>>
    /\ ipool' = "closed"
    /\ ipc' = "returned"
    /\ istates' = Append(istates, "Released")
    /\ UNCHANGED <<now, releasedAt, reacquireStart, reacquireDuration>>
    /\ UNCHANGED <<benchVars, collVars, anaVars, expVars, mainVars>>

\* runIdleTest has been called
IdleTestInit ==
    /\ BenchIdle /\ CollectorInit /\ AnalyzerIdle /\ ExporterIdle /\ MainIdle
    /\ ipc = "start"
    /\ ipool = "none"
    /\ iheld = 0
    /\ now \in 0 .. MaxIdleLatency
    /\ releasedAt = 0
    /\ reacquireStart = 0
    /\ reacquireDuration = 0
    /\ idleResult = << >>
    /\ istates = << >>

IdleTestNext ==
    \/ IdleCreatePool
    \/ IdleCreatePoolFails
    \/ FirstAcquire
    \/ FirstAcquireFails
    \/ IdleQuery
    \/ IdleQueryFails
    \/ FirstRelease
    \/ IdleSleep
    \/ ReacquireStart
    \/ Reacquire
    \/ ReacquireFails
    \/ IdleReturn

IdleTestSpec == IdleTestInit /\ [][IdleTestNext]_vars

(***************************************************************************)
(* main (main.go:56-119): for each configuration a warmup run and a        *)
(* measured run of runBenchmark, then runIdleTest; generateReport at the   *)
(* end.  The calls reuse the actions of runBenchmark and runIdleTest; a    *)
(* call starts them on fresh local state.  log.Fatalf in either ends the   *)
(* process: main takes no further step.                                    *)
(***************************************************************************)
\* the configurations, by their index in configs
Configs == 1 .. NumConfigs

\* runBenchmark(config, concurrency, isWarmup) is entered: its locals.
\* In the runs of main every query is answered within one tick of the
\* clock, so that the results main collects do not multiply the states.
NewRun ==
    /\ concurrency' = ConcurrencyLevel
    /\ maxLatency' = 0
    /\ pc' = "pools"
    /\ pools' = [p \in PoolIds |-> "none"]
    /\ inUse' = [p \in PoolIds |-> 0]
    /\ launched' = 0
    /\ wg' = 0
    /\ tpc' = [w \in 0 .. (ConcurrencyLevel - 1) |-> "unborn"]
    /\ poolIndex' = [w \in 0 .. (ConcurrencyLevel - 1) |-> 0 - 1]
    /\ acquisitionTimes' = [w \in 0 .. (ConcurrencyLevel - 1) |-> 0]
    /\ writes' = [w \in 0 .. (ConcurrencyLevel - 1) |-> << >>]
    /\ queryErr' = [w \in 0 .. (ConcurrencyLevel - 1) |-> FALSE]
    /\ sample' = [w \in 0 .. (ConcurrencyLevel - 1) |-> 0]
    /\ scanOutcome' = [w \in 0 .. (ConcurrencyLevel - 1) |-> "none"]
    /\ results' = << >>

\* the result as main receives it: ConnectionType and IsWarmup are set from
\* the parameters of the call
ReturnedResult(isWarmup) ==
    [ConnectionType |-> configIndex,
     IsWarmup       |-> isWarmup,
     Result         |-> results[1]]

\* the runBenchmark call main is blocked in has returned
RunReturned == pc = "done"

\* mutant of WarmupReturns: the measured run is left out
WarmupReturnsSkipsMeasured ==
    /\ mpc = "warmup"
    /\ RunReturned
    /\ allResults' = Append(allResults, ReturnedResult(TRUE))
    /\ mpc' = "compared"
    /\ UNCHANGED configIndex
    /\ UNCHANGED <<benchVars, collVars, anaVars, expVars, idleVars>>

\* warmupResult := runBenchmark(config, concurrency, true) returns;
\* allResults = append(allResults, warmupResult); time.Sleep(2s) starts
WarmupReturns ==
    /\ mpc = "warmup"
    /\ RunReturned
    /\ allResults' = Append(allResults, ReturnedResult(TRUE))
    /\ mpc' = "sleep"
    /\ UNCHANGED configIndex
    /\ UNCHANGED <<benchVars, collVars, anaVars, expVars, idleVars>>

\* the sleep ends; runBenchmark(config, concurrency, false) is called
CallMeasured ==
    /\ mpc = "sleep"
    /\ NewRun
    /\ mpc' = "measured"
    /\ UNCHANGED <<configIndex, allResults>>
    /\ UNCHANGED <<collVars, anaVars, expVars, idleVars>>

\* actualResult := runBenchmark(...) returns; it is appended;
\* showComparison; time.Sleep(1s) starts
MeasuredReturns ==
    /\ mpc = "measured"
    /\ RunReturned
    /\ allResults' = Append(allResults, ReturnedResult(FALSE))
    /\ mpc' = "compared"
    /\ UNCHANGED configIndex
    /\ UNCHANGED <<benchVars, collVars, anaVars, expVars, idleVars>>

\* the loop over the concurrency levels ends; runIdleTest(config) is called
CallIdleTest ==
    /\ mpc = "compared"
    /\ mpc' = "idle"
    /\ ipc' = "start"
    /\ ipool' = "none"
    /\ iheld' = 0
    /\ now' = 0
    /\ releasedAt' = 0
    /\ reacquireStart' = 0
    /\ reacquireDuration' = 0
    /\ idleResult' = << >>
    /\ istates' = << >>
    /\ UNCHANGED <<configIndex, allResults>>
    /\ UNCHANGED <<benchVars, collVars, anaVars, expVars>>

\* idleResult := runIdleTest(config) returns and is printed; the loop goes
\* to the next configuration and calls its warmup run
NextConfig ==
    /\ mpc = "idle"
    /\ ipc = "returned"
    /\ configIndex < NumConfigs
    /\ configIndex' = configIndex + 1
    /\ NewRun
    /\ mpc' = "warmup"
    /\ ipc' = "uncalled"
    /\ ipool' = "none"
    /\ iheld' = 0
    /\ now' = 0
    /\ releasedAt' = 0
    /\ reacquireStart' = 0
    /\ reacquireDuration' = 0
    /\ idleResult' = << >>
    /\ istates' = << >>
    /\ UNCHANGED allResults
    /\ UNCHANGED <<collVars, anaVars, expVars>>

\* the last idle test returns; generateReport(allResults); main returns
GenerateReport ==
    /\ mpc = "idle"
    /\ ipc = "returned"
    /\ configIndex = NumConfigs
    /\ mpc' = "exited"
    /\ UNCHANGED <<configIndex, allResults>>
    /\ UNCHANGED <<benchVars, collVars, anaVars, expVars, idleVars>>

\* main has called the warmup run of the first configuration
MainInit ==
    /\ mpc = "warmup"
    /\ configIndex = 1
    /\ allResults = << >>
    /\ concurrency = ConcurrencyLevel
    /\ maxLatency = 0
    /\ pc = "pools"
    /\ pools = [p \in PoolIds |-> "none"]
    /\ inUse = [p \in PoolIds |-> 0]
    /\ launched = 0
    /\ wg = 0
    /\ tpc = [w \in Workers |-> "unborn"]
    /\ poolIndex = [w \in Workers |-> 0 - 1]
    /\ acquisitionTimes = [w \in Workers |-> 0]
    /\ writes = [w \in Workers |-> << >>]
    /\ queryErr = [w \in Workers |-> FALSE]
    /\ sample = [w \in Workers |-> 0]
    /\ scanOutcome = [w \in Workers |-> "none"]
    /\ results = << >>
    /\ CollectorInit /\ AnalyzerIdle /\ ExporterIdle /\ IdleTestIdle

MainNext ==
    \/ CreatePool
    \/ CreatePoolFails
    \/ Launch
    \/ LaunchDone
    \/ \E w \in Workers : QueryErr(w)
    \/ \E w \in Workers : QueryOk(w)
    \/ \E w \in Workers : ReadRows(w)
    \/ \E w \in Workers : CloseRows(w)
    \/ Wait
    \/ Return
    \/ WarmupReturns
    \/ CallMeasured
    \/ MeasuredReturns
    \/ CallIdleTest
    \/ IdleCreatePool
    \/ IdleCreatePoolFails
    \/ FirstAcquire
    \/ FirstAcquireFails
    \/ IdleQuery
    \/ IdleQueryFails
    \/ FirstRelease
    \/ IdleSleep
    \/ ReacquireStart
    \/ Reacquire
    \/ ReacquireFails
    \/ IdleReturn
    \/ NextConfig
    \/ GenerateReport

MainSpec == MainInit /\ [][MainNext]_vars

(***************************************************************************)
(* Claims about runBenchmark.                                              *)
(***************************************************************************)
AllTasksDone == \A w \in Workers : tpc[w] = "done"

\* C1: under the scheduling fairness (every query issued to a pool returns,
\* with rows or an error), once the pools exist every one of the N client
\* tasks completes, the join returns and the call produces exactly one
\* BenchmarkResult, whose TotalQueries is N whatever the number of failed
\* tasks; at no time is there more than one result.
C1_RunCompletes ==
    /\ [](Len(results) <= 1)
    /\ (pc = "launch") ~> (/\ pc = "done"
                           /\ AllTasksDone
                           /\ Len(results) = 1
                           /\ results[1].TotalQueries = concurrency)

\* C1 witness: a finished run with more tasks than pooled connections, in
\* which a task failed and another succeeded.
C1_Witness ==
    /\ pc = "done"
    /\ Len(results) = 1
    /\ results[1].TotalQueries = concurrency
    /\ concurrency > NumberOfPoolInstances * DefaultMaxConnections
    /\ \E v, w \in Workers : queryErr[v] /\ ~queryErr[w]

\* C2: the aggregation runs only when every client task has finished, so no
\* task writes the timing array once the aggregation has started.
C2_JoinBeforeAggregation ==
    pc \in {"aggregate", "done"} => AllTasksDone

\* C2 witness: the aggregation is about to read the array of a full run.
C2_Witness ==
    /\ pc = "aggregate"
    /\ concurrency = MaxConcurrency
    /\ AllTasksDone

\* C3: the timing array has exactly `concurrency` entries, and entry k is
\* written at most once and only by the task with ordinal k.
C3_DisjointIndices ==
    /\ DOMAIN acquisitionTimes = 0 .. (concurrency - 1)
    /\ \A k \in DOMAIN writes :
          /\ Len(writes[k]) <= 1
          /\ \A j \in 1 .. Len(writes[k]) : writes[k][j] = k

\* C3 witness: every task of a full run has written its entry.
C3_Witness ==
    /\ concurrency = MaxConcurrency
    /\ \A k \in Workers : writes[k] = <<k>>

\* the successful (non-sentinel) entries of a timing array
Successful(times) == {k \in DOMAIN times : times[k] # 0}

RECURSIVE SumOver(_, _)
SumOver(times, ks) ==
    IF ks = {} THEN 0
    ELSE LET k == CHOOSE x \in ks : TRUE
         IN  times[k] + SumOver(times, ks \ {k})

\* C4: the reported average is the sum of the successful entries divided by
\* the full concurrency N (integer division), and 0 when every entry failed.
C4_AverageOverAll ==
    \A r \in 1 .. Len(results) :
        LET times == results[r].AcquisitionTimes
            S     == SumOver(times, Successful(times))
        IN  /\ results[r].AvgAcquisitionTime = S \div concurrency
            /\ Successful(times) = {} => results[r].AvgAcquisitionTime = 0

\* C4 witness: a result with failed and successful entries for which S / N
\* differs from S / (N - f).
C4_Witness ==
    /\ Len(results) = 1
    /\ LET times == results[1].AcquisitionTimes
           s     == Cardinality(Successful(times))
           S     == SumOver(times, Successful(times))
       IN  /\ s > 0
           /\ s < concurrency
           /\ S \div concurrency # S \div s
           /\ results[1].AvgAcquisitionTime = S \div concurrency

\* C5: min and max are 0 when every entry is the sentinel, and otherwise the
\* smallest and the largest successful entry, wherever the failed ones are.
C5_MinMaxOverSuccessful ==
    \A r \in 1 .. Len(results) :
        LET times == results[r].AcquisitionTimes
            succ  == {times[k] : k \in Successful(times)}
        IN  IF succ = {}
            THEN /\ results[r].MinAcquisitionTime = 0
                 /\ results[r].MaxAcquisitionTime = 0
            ELSE /\ results[r].MinAcquisitionTime \in succ
                 /\ \A t \in succ : results[r].MinAcquisitionTime <= t
                 /\ results[r].MaxAcquisitionTime \in succ
                 /\ \A t \in succ : results[r].MaxAcquisitionTime >= t

\* C5 witness: a result whose entry 0 failed and whose successful entries
\* differ.
C5_Witness ==
    /\ Len(results) = 1
    /\ results[1].AcquisitionTimes[0] = 0
    /\ results[1].MinAcquisitionTime > 0
    /\ results[1].MaxAcquisitionTime > results[1].MinAcquisitionTime

\* a task's operation failed: the query, or the scan of its row
OperationFailed(w) == queryErr[w] \/ scanOutcome[w] = "scanerr"

TasksOf(p) == {w \in Workers : poolIndex[w] = p}

\* the tasks that hold a connection
Holding(p) == {w \in TasksOf(p) : tpc[w] \in {"rows", "close"}}

\* C17: task i sends its query to pool (i mod instance count) and holds a
\* connection of no other pool; once every task has started, the numbers of
\* tasks of any two pools differ by at most one.
C17_RoundRobinPools ==
    /\ \A w \in Workers :
          poolIndex[w] # 0 - 1 => poolIndex[w] = w % NumberOfPoolInstances
    /\ \A p \in PoolIds : inUse[p] = Cardinality(Holding(p))
    /\ (\A w \in Workers : poolIndex[w] # 0 - 1) =>
          \A p, q \in PoolIds :
              Cardinality(TasksOf(p)) - Cardinality(TasksOf(q)) <= 1

\* C17 witness: three tasks on two pools have all ended; two of them used
\* pool 0, one used pool 1.
C17_Witness ==
    /\ pc = "done"
    /\ concurrency = 3
    /\ Cardinality(TasksOf(0)) = 2
    /\ Cardinality(TasksOf(1)) = 1
    /\ \A w \in Workers : ~queryErr[w]


\* C22: a connection is held exactly by the tasks between the return of
\* their query and their rows.Close(); a task that ends after a successful
\* query gives its connection back in that step, whatever the row scan
\* gave; a task whose query failed never took one; after the join no
\* connection is held.
C22_ResourcesReleased ==
    /\ [](/\ \A p \in PoolIds : inUse[p] = Cardinality(Holding(p))
          /\ \A w \in Workers : queryErr[w] => tpc[w] = "done"
          /\ pc \in {"aggregate", "done"} => \A p \in PoolIds : inUse[p] = 0)
    /\ [][\A w \in Workers :
             /\ (tpc[w] \in {"rows", "close"} /\ tpc'[w] = "done") =>
                   inUse'[poolIndex[w]] = inUse[poolIndex[w]] - 1
             /\ (queryErr'[w] /\ ~queryErr[w]) => inUse' = inUse]_vars

\* C22 witness: a run of MaxConcurrency tasks has ended; one query failed,
\* the others held a connection and gave it back; nothing is held.
C22_Witness ==
    /\ pc = "done"
    /\ concurrency = MaxConcurrency
    /\ \E w \in Workers : queryErr[w]
    /\ \E w \in Workers : ~queryErr[w] /\ sample[w] > 0
    /\ \A p \in PoolIds : inUse[p] = 0

\* task w has recorded the sample of a successful query
SampleRecorded(w) == writes[TimingIndex(w)] # << >> /\ ~queryErr[w]

\* C23 (as stated): a successful task records its sample only after it has
\* released its connection.
C23_SampleTakenAfterRelease ==
    \A w \in Workers : SampleRecorded(w) => tpc[w] = "done"

\* C23 (amended): a successful task records what time.Since(queryStart)
\* returned when pool.Query returned, while it holds its connection; reading
\* the rows and closing them never change the recorded sample.
C23_SampleTakenAtQueryReturn ==
    /\ [](\A w \in Workers :
             /\ tpc[w] \in {"rows", "close"} =>
                   /\ SampleRecorded(w)
                   /\ inUse[poolIndex[w]] > 0
             /\ SampleRecorded(w) =>
                   acquisitionTimes[TimingIndex(w)] = sample[w])
    /\ [][\A w \in Workers :
             tpc[w] \in {"rows", "close"} =>
                 acquisitionTimes'[TimingIndex(w)]
                     = acquisitionTimes[TimingIndex(w)]]_vars

\* C23 witness: a task holds its connection, has not read its rows yet, and
\* its positive sample is already in the timing array.
C23_Witness ==
    \E w \in Workers :
        /\ tpc[w] = "rows"
        /\ inUse[poolIndex[w]] > 0
        /\ sample[w] > 0
        /\ acquisitionTimes[TimingIndex(w)] = sample[w]


(***************************************************************************)
(* Claims about the TraceCollector.                                        *)
(***************************************************************************)
\* the sequence s holds, of every batch, all spans contiguously and in
\* order, or none
WholeBatches(s) ==
    \A c \in 1 .. MaxCalls :
        LET at == {i \in 1 .. Len(s) : s[i][1] = c}
        IN  \/ at = {}
            \/ \E b \in 1 .. Len(s) :
                  /\ at = b .. (b + callSize[c] - 1)
                  /\ \A j \in 1 .. callSize[c] : s[b + j - 1] = SpanOf(c, j)

\* C7: ExportSpans calls are serialized (at most one is appending, and none
\* while GetSpans holds the mutex), and every snapshot GetSpans returned
\* holds each batch whole or not at all, never torn or interleaved.
C7_AtomicBatchAppend ==
    /\ Cardinality({p \in Producers : epc[p] = "append"}) <= 1
    /\ gpc = "locked" => \A p \in Producers : epc[p] # "append"
    /\ WholeBatches(snapshot)

\* C7 witness: the reader holds a snapshot with a whole batch of MaxBatch
\* spans, taken between two ExportSpans calls: another producer is in the
\* middle of appending a later batch.
C7_Witness ==
    /\ \E c \in 1 .. MaxCalls :
          /\ callSize[c] = MaxBatch
          /\ \E i \in 1 .. Len(snapshot) : snapshot[i] = SpanOf(c, MaxBatch)
    /\ \E p \in Producers :
          /\ epc[p] = "append"
          /\ eidx[p] > 0
          /\ eidx[p] < callSize[ecall[p]]
    /\ Len(snapshot) < Len(tcSpans)

\* C8: no span of an ExportSpans call made after Shutdown is ever added to
\* the collected spans.
C8_NoSpanAfterShutdown ==
    \A i \in 1 .. Len(tcSpans) : tcSpans[i][1] \notin lateCalls

\* C9: every Shutdown call, the first and the later ones, returns nil and
\* leaves the collected span sequence as it was.
C9_ShutdownKeepsSpans ==
    [][shutdownCalls' # shutdownCalls
          => (tcSpans' = tcSpans /\ shutdownErr' = "nil")]_vars

\* C9 witness: Shutdown has been called MaxShutdowns times on a collector
\* holding spans, and a GetSpans made since returned them all.
C9_Witness ==
    /\ shutdownCalls = MaxShutdowns
    /\ shutdownCalls > 1
    /\ shutdownErr = "nil"
    /\ Len(tcSpans) > 1
    /\ snapshot = tcSpans

\* sequence a is an initial part of sequence b
IsPrefix(a, b) == Len(a) <= Len(b) /\ a = SubSeq(b, 1, Len(a))

\* the spans of call c the collector holds
SpansOfCall(c) == {i \in 1 .. Len(tcSpans) : tcSpans[i][1] = c}

\* call c is still inside ExportSpans
InProgress(c) == \E p \in Producers : ecall[p] = c /\ epc[p] # "idle"

\* C21: the collector holds the batches of the calls made so far, each
\* whole and once, in the order in which the calls appended them: every
\* step only appends the next span of the call that holds the mutex, so an
\* earlier snapshot is a prefix of the collector and of every later
\* snapshot.
C21_AppendOnly ==
    /\ [](/\ IsPrefix(snapshot, tcSpans)
          /\ \A i, j \in 1 .. Len(tcSpans) : i # j => tcSpans[i] # tcSpans[j]
          /\ \A c \in 1 .. nextCall :
                ~InProgress(c) => Cardinality(SpansOfCall(c)) = callSize[c]
          /\ mu = <<"free">> => WholeBatches(tcSpans))
    /\ [][/\ IsPrefix(tcSpans, tcSpans')
          /\ IsPrefix(snapshot, snapshot')
          /\ tcSpans' # tcSpans =>
                \E p \in Producers :
                    /\ mu = <<"export", p>>
                    /\ tcSpans' =
                          Append(tcSpans, SpanOf(ecall[p], eidx[p] + 1))]_vars

\* C21 witness: MaxCalls calls have returned, the collector holds all their
\* spans, and the reader still holds a shorter, non-empty snapshot taken
\* before the last call.
C21_Witness ==
    /\ nextCall = MaxCalls
    /\ \A p \in Producers : epc[p] = "idle"
    /\ \A c \in 1 .. MaxCalls : Cardinality(SpansOfCall(c)) = callSize[c]
    /\ snapshot # << >>
    /\ Len(snapshot) < Len(tcSpans)
    /\ IsPrefix(snapshot, tcSpans)


(***************************************************************************)
(* Claims about FindSlowestTraces.                                         *)
(***************************************************************************)
\* the duration of trace t, read off the snapshot: the longest of its spans
\* named worker.request, 0 when it has none
DurationOfTrace(t) ==
    LET ds == {tcSpans[i].endTime - tcSpans[i].startTime :
                  i \in {j \in 1 .. Len(tcSpans) :
                            /\ tcSpans[j].traceID = t
                            /\ tcSpans[j].name = "worker.request"}}
    IN  IF ds = {} THEN 0 ELSE CHOOSE d \in ds : \A e \in ds : d >= e

\* the trace identifiers a result holds
ReturnedIDs == {found[i].TraceID : i \in 1 .. Len(found)}

\* C10: a call with K >= 0 returns exactly min(K, number of distinct trace
\* identifiers) traces, in non-increasing order of duration, none of them
\* shorter than a trace that was left out.
C10_TopKByDuration ==
    (fpc = "returned" /\ findN >= 0) =>
        LET ids == TraceIDsOf(tcSpans)
            c   == Cardinality(ids)
        IN  /\ Len(found) = IF findN < c THEN findN ELSE c
            /\ Cardinality(ReturnedIDs) = Len(found)
            /\ ReturnedIDs \subseteq ids
            /\ \A i \in 1 .. Len(found) :
                  found[i].Duration = DurationOfTrace(found[i].TraceID)
            /\ \A i, j \in 1 .. Len(found) :
                  i < j => found[i].Duration >= found[j].Duration
            /\ \A i \in 1 .. Len(found) :
                  \A t \in ids \ ReturnedIDs :
                      found[i].Duration >= DurationOfTrace(t)

\* C10 witness: K = 2 on a snapshot of three traces of three different
\* durations: the two slowest come back, slowest first, the third is left
\* out.
C10_Witness ==
    /\ fpc = "returned"
    /\ findN = 2
    /\ Cardinality(TraceIDsOf(tcSpans)) = 3
    /\ Len(found) = 2
    /\ found[1].Duration > found[2].Duration
    /\ \E t \in TraceIDsOf(tcSpans) \ ReturnedIDs :
          found[2].Duration > DurationOfTrace(t)

\* the identifiers of a result, in rank order
RankedIDs(res) == [i \in 1 .. Len(res) |-> res[i].TraceID]

\* C11: a second call on the unchanged collector with the same K returns the
\* same trace identifiers in the same order as the first call.
C11_RepeatedCallSameOrder ==
    (fpc = "returned" /\ repc = "returned") =>
        RankedIDs(refound) = RankedIDs(found)

\* C12: a call with K <= 0, or a call on an empty snapshot, returns an empty
\* result and does not crash.
C12_DegenerateInputsReturnEmpty ==
    (fpc # "idle" /\ (findN <= 0 \/ Len(tcSpans) = 0)) =>
        (fpc = "returned" /\ found = << >>)

\* trace t has a span named as the root operation
HasRootSpan(t) ==
    \E i \in 1 .. Len(tcSpans) :
        tcSpans[i].traceID = t /\ tcSpans[i].name = "worker.request"

\* C13: a returned trace without a root-operation span has duration 0, no
\* trace of positive duration is ranked behind it, and none is left out
\* while it is selected.
C13_RootlessTraceRanksLast ==
    fpc = "returned" =>
        /\ \A i \in 1 .. Len(found) :
              ~HasRootSpan(found[i].TraceID) =>
                  /\ found[i].Duration = 0
                  /\ \A j \in 1 .. Len(found) :
                        j > i => found[j].Duration = 0
                  /\ \A t \in TraceIDsOf(tcSpans) \ ReturnedIDs :
                        DurationOfTrace(t) = 0

\* C13 witness: the first trace recorded has only a span of another name that
\* took time, a later trace has a root span that took time; K = 2 of three
\* traces returns the rooted trace first and the rootless one, with duration
\* 0, behind it.
C13_Witness ==
    /\ fpc = "returned"
    /\ findN = 2
    /\ Cardinality(TraceIDsOf(tcSpans)) = 3
    /\ Len(found) = 2
    /\ found[1].Duration > 0
    /\ ~HasRootSpan(found[2].TraceID)
    /\ found[2].Duration = 0
    /\ \E i \in 1 .. Len(tcSpans) :
          /\ tcSpans[i].traceID = found[2].TraceID
          /\ Elapsed(tcSpans[i]) > 0
          /\ \A k \in 1 .. Len(tcSpans) :
                tcSpans[k].traceID = found[1].TraceID => k > i

\* the position in the collected sequence of the first span of trace t
FirstSeen(t) ==
    CHOOSE i \in 1 .. Len(tcSpans) :
        /\ tcSpans[i].traceID = t
        /\ \A k \in 1 .. (i - 1) : tcSpans[k].traceID # t

\* C14: among traces of equal duration the one first encountered in the
\* collected sequence is ranked first, and is the one that survives the
\* truncation to K.
C14_TiesByFirstEncounter ==
    fpc = "returned" =>
        /\ \A i, j \in 1 .. Len(found) :
              (i < j /\ found[i].Duration = found[j].Duration) =>
                  FirstSeen(found[i].TraceID) < FirstSeen(found[j].TraceID)
        /\ \A i \in 1 .. Len(found) :
              \A t \in TraceIDsOf(tcSpans) \ ReturnedIDs :
                  found[i].Duration = DurationOfTrace(t) =>
                      FirstSeen(found[i].TraceID) < FirstSeen(t)

\* the positions in the collected sequence of the root spans of trace t
RootSpansOf(t) ==
    {j \in 1 .. Len(tcSpans) :
        tcSpans[j].traceID = t /\ tcSpans[j].name = "worker.request"}

\* C24: the duration of a returned trace is the elapsed time of one of its
\* spans named worker.request, no other span of that name in the trace took
\* longer, and spans of other names have no part in it (0 when the trace has
\* no span of that name).
C24_DurationIsLongestRootSpan ==
    fpc = "returned" =>
        \A i \in 1 .. Len(found) :
            LET roots == RootSpansOf(found[i].TraceID)
            IN  IF roots = {}
                THEN found[i].Duration = 0
                ELSE /\ \E j \in roots :
                           found[i].Duration = Elapsed(tcSpans[j])
                     /\ \A j \in roots :
                           found[i].Duration >= Elapsed(tcSpans[j])

\* C24 witness: a returned trace has two root spans, the longer one recorded
\* first, and a span of another name that took longer than both; its
\* duration is that of the longer root span.
C24_Witness ==
    /\ fpc = "returned"
    /\ \E i \in 1 .. Len(found) :
       \E j, k \in RootSpansOf(found[i].TraceID) :
       \E l \in 1 .. Len(tcSpans) :
          /\ j < k
          /\ Elapsed(tcSpans[j]) > Elapsed(tcSpans[k])
          /\ tcSpans[l].traceID = found[i].TraceID
          /\ tcSpans[l].name # "worker.request"
          /\ Elapsed(tcSpans[l]) > Elapsed(tcSpans[j])
          /\ found[i].Duration = Elapsed(tcSpans[j])

\* the positions in the collected sequence of the spans a returned trace
\* lists (a span is recorded with its position as its span identifier)
ListedPositions(tr) == {tr.Spans[k].spanID : k \in 1 .. Len(tr.Spans)}

\* C30: the span list of a returned trace holds the spans of the snapshot
\* with the identifier of the trace, every one of them once and in snapshot
\* order, and nothing else; two returned traces have different identifiers
\* and no span in common.
C30_GroupingIsPartition ==
    fpc = "returned" =>
        /\ \A i \in 1 .. Len(found) :
              LET tr == found[i]
              IN  /\ \A k \in 1 .. Len(tr.Spans) :
                        /\ tr.Spans[k].spanID \in 1 .. Len(tcSpans)
                        /\ tr.Spans[k] = tcSpans[tr.Spans[k].spanID]
                        /\ tr.Spans[k].traceID = tr.TraceID
                  /\ \A k, l \in 1 .. Len(tr.Spans) :
                        k < l => tr.Spans[k].spanID < tr.Spans[l].spanID
                  /\ \A j \in 1 .. Len(tcSpans) :
                        tcSpans[j].traceID = tr.TraceID =>
                            j \in ListedPositions(tr)
        /\ \A i, j \in 1 .. Len(found) :
              i # j =>
                  /\ found[i].TraceID # found[j].TraceID
                  /\ ListedPositions(found[i]) \cap ListedPositions(found[j])
                         = {}

\* C30 witness: the spans of two traces were recorded interleaved; both
\* traces are returned, the one with two spans lists them in the order in
\* which they were recorded.
C30_Witness ==
    /\ fpc = "returned"
    /\ Len(tcSpans) = 3
    /\ tcSpans[1].traceID = tcSpans[3].traceID
    /\ tcSpans[2].traceID # tcSpans[1].traceID
    /\ Len(found) = 2
    /\ \E i \in 1 .. Len(found) :
          found[i].Spans = <<tcSpans[1], tcSpans[3]>>

(***************************************************************************)
(* Claims about ExportTraceToJSON.                                         *)
(***************************************************************************)

\* C15: a call with zero spans returns an explicit error and leaves every
\* file as it was: nothing is created, nothing is modified.
C15_EmptyExportWritesNothing ==
    [][(xpc = "build" /\ xpc' = "returned" /\ Len(xspans) = 0) =>
          (xerr' = "no spans to export" /\ files' = files)]_vars

\* C15 witness: a call with zero spans that named the file an earlier export
\* had left has returned its error, and the file still holds the earlier
\* document.
C15_Witness ==
    /\ xpc = "returned"
    /\ Len(xspans) = 0
    /\ xerr = "no spans to export"
    /\ xfile = "trace_1.json"
    /\ files[xfile] = <<"json", EarlierDocument>>

\* the span read back carries what the exported span carried
SameSpan(span, back) ==
    /\ back.traceID = span.traceID
    /\ back.spanID = span.spanID
    /\ back.hasParent = IsValid(span.parent)
    /\ IsValid(span.parent) => back.parent = span.parent
    /\ back.startTime = span.startTime
    /\ back.endTime = span.endTime
    /\ Len(back.attributes) = Len(span.attributes)
    /\ \A k \in 1 .. Len(span.attributes) :
          /\ back.attributes[k].key = span.attributes[k].key
          /\ back.attributes[k].type = span.attributes[k].type
          /\ back.attributes[k].v = span.attributes[k].v

\* C16: whenever ExportTraceToJSON is given a non-empty slice and the file
\* system does not fail, the document it wrote reads back, span by span, as
\* the identifiers, the parent (absent when there is none), the timestamps
\* and the typed attributes of the spans it was given.
C16_RoundTrip ==
    (xpc = "returned" /\ Len(xspans) > 0
        /\ xerr # "failed to write trace file") =>
        /\ xerr = "nil"
        /\ files[xfile][1] = "json"
        /\ LET back == ParseTrace(files[xfile][2])
           IN  /\ Len(back) = Len(xspans)
               /\ \A i \in 1 .. Len(xspans) : SameSpan(xspans[i], back[i])

\* C26: the document a successful export of n >= 1 spans wrote has one
\* batch, that batch one instrumentation group, that group n span entries,
\* and entry i carries the trace and span identifier of input span i.
C26_OneBatchOneGroupOrderedSpans ==
    (xpc = "returned" /\ Len(xspans) >= 1 /\ xerr = "nil") =>
        /\ files[xfile][1] = "json"
        /\ LET doc == files[xfile][2]
           IN  /\ Len(doc.batches) = 1
               /\ Len(doc.batches[1].instrumentationLibrarySpans) = 1
               /\ LET list ==
                          doc.batches[1].instrumentationLibrarySpans[1].spans
                  IN  /\ Len(list) = Len(xspans)
                      /\ \A i \in 1 .. Len(xspans) :
                            /\ list[i].traceId
                                   = <<"str", HexString(xspans[i].traceID)>>
                            /\ list[i].spanId
                                   = <<"str", HexString(xspans[i].spanID)>>

\* C26 witness: two spans of one trace were exported without error; the
\* document lists two entries with different span identifiers.
C26_Witness ==
    /\ xpc = "returned"
    /\ xerr = "nil"
    /\ Len(xspans) = 2
    /\ xspans[1].spanID # xspans[2].spanID
    /\ Len(files[xfile][2].batches[1].instrumentationLibrarySpans[1].spans) = 2

(***************************************************************************)
(* Claims about ExportSlowestTraces.                                       *)
(***************************************************************************)
\* C27: no call of ExportSlowestTraces crashes; a call on a collector that
\* holds no spans returns the "no traces found" error and leaves every file
\* as it was; a call that returns no error has written whole every file it
\* touched, and an error of the export of a trace comes back wrapped.
C27_ExportErrorsSurfaced ==
    [][exportCalls' # exportCalls =>
          /\ exportErr' # <<"panic">>
          /\ Len(tcSpans) = 0 =>
                /\ exportErr' = <<"no traces found to export">>
                /\ files' = files
          /\ exportErr' = <<"nil">> =>
                \A f \in DOMAIN files' :
                    (f \in DOMAIN files => files'[f] # files[f]) =>
                        files'[f][1] = "json"
          /\ exportErr'[1] \in {"failed to export trace",
                                 "failed to export traces"} =>
                exportErr'[Len(exportErr')] = "failed to write trace file"]_vars

\* C28: no export writes to a file that holds the document of an earlier
\* export of the run.
C28_NoFilenameCollision ==
    [][\A f \in DOMAIN files :
          files[f][1] = "json" => files'[f] = files[f]]_vars

(***************************************************************************)
(* Claims about runIdleTest.                                               *)
(***************************************************************************)
IdleStateOrder ==
    <<"Idle", "Acquired", "Released", "Idling", "Reacquiring", "Acquired",
      "Released">>

\* C19: the idle test enters Idle, Acquired, Released, Idling, Reacquiring,
\* Acquired, Released in this order; it sleeps holding nothing and
\* reacquires only when the idle period has passed since the release; when
\* it has returned it has gone through all seven states and holds nothing;
\* after a fatal failure there is no measurement and no further step.
C19_IdleTestStateOrder ==
    /\ [](/\ Len(istates) <= Len(IdleStateOrder)
          /\ istates = SubSeq(IdleStateOrder, 1, Len(istates))
          /\ ipc = "sleeping" => iheld = 0
          /\ ipc = "reacquire" => now >= releasedAt + IdlePeriod
          /\ ipc = "returned" => (istates = IdleStateOrder /\ iheld = 0)
          /\ idleResult # << >> => ipc = "returned"
          /\ ipc = "fatal" => idleResult = << >>)
    /\ [][ipc # "fatal"]_vars

\* C19 witness: a test that took time to reacquire has returned through all
\* seven states and holds nothing.
C19_Witness ==
    /\ ipc = "returned"
    /\ istates = IdleStateOrder
    /\ iheld = 0
    /\ ipool = "closed"
    /\ idleResult = <<MaxIdleLatency>>

\* C25: the value the idle test returns is the time the clock advanced
\* during the second pool.Acquire and nothing else: its start is read when
\* the sleep has ended, the value is fixed when that Acquire returns, no
\* other step changes it (the first acquisition, both queries, the releases
\* and the sleep leave it alone), and it is what the test returns.
C25_MeasuresOnlyReacquisition ==
    /\ [](/\ ipc = "reacquire" =>
                /\ reacquireStart = now
                /\ reacquireStart >= releasedAt + IdlePeriod
          /\ ipc = "requery" => reacquireDuration = now - reacquireStart
          /\ idleResult # << >> =>
                /\ idleResult = <<reacquireDuration>>
                /\ reacquireDuration \in IdleLatencies)
    /\ [][/\ (ipc = "reacquire" /\ ipc' = "requery") =>
                reacquireDuration' = now' - now
          /\ ipc # "reacquire" => reacquireDuration' = reacquireDuration]_vars

\* C25 witness: the test was called at the latest clock value, its first
\* acquisition and first query took the longest time each, it slept, its
\* second query took time too, and it returned the one tick its second
\* Acquire took.
C25_Witness ==
    /\ ipc = "returned"
    /\ releasedAt = 3 * MaxIdleLatency
    /\ reacquireStart = releasedAt + IdlePeriod
    /\ now > reacquireStart + 1
    /\ idleResult = <<1>>

(***************************************************************************)
(* Claims about main.                                                      *)
(***************************************************************************)
\* the construction of a pool of the current run has failed
PoolFailed == \E p \in PoolIds : pools[p] = "failed"

\* allResults holds a result of the run main is in
CurrentRunRecorded ==
    \E i \in 1 .. Len(allResults) :
        /\ allResults[i].ConnectionType = configIndex
        /\ allResults[i].IsWarmup = (mpc = "warmup")

TaskRunning == \E w \in Workers : tpc[w] \notin {"unborn", "done"}

\* C20: for every configuration the warmup result is recorded first and the
\* measured result second; the measured run is called only when the warmup
\* run has joined all its tasks and returned its result, and the idle test
\* only when both results are recorded.
C20_WarmupThenMeasuredThenIdle ==
    /\ \A i \in 1 .. Len(allResults) :
          /\ allResults[i].ConnectionType = (i + 1) \div 2
          /\ allResults[i].IsWarmup = (i % 2 = 1)
    /\ mpc = "warmup" => Len(allResults) = 2 * configIndex - 2
    /\ mpc = "sleep" =>
          /\ pc = "done" /\ AllTasksDone /\ wg = 0
          /\ Len(allResults) = 2 * configIndex - 1
          /\ allResults[Len(allResults)].Result = results[1]
    /\ mpc = "measured" => Len(allResults) = 2 * configIndex - 1
    /\ mpc \in {"compared", "idle", "exited"} =>
          Len(allResults) = 2 * configIndex
    /\ TaskRunning => mpc \in {"warmup", "measured"}
    /\ ipc # "uncalled" => mpc \in {"idle", "exited"}
    /\ mpc = "exited" => configIndex = NumConfigs

\* C20 witness: main has finished; every configuration has its warmup and
\* its measured result, in this order.
C20_Witness ==
    /\ mpc = "exited"
    /\ Len(allResults) = 2 * NumConfigs
    /\ allResults[1].IsWarmup /\ ~allResults[2].IsWarmup
    /\ allResults[3].ConnectionType = NumConfigs
    /\ ipc = "returned"

====
